---- MODULE Spec2Model ----
(***************************************************************************)
(* State-machine model of the map editor (N-Argyle/mapgen-ai).             *)
(*                                                                         *)
(*   src/App.tsx                  layer store, history, tools, generation  *)
(*   src/components/MapCanvas.tsx pointer interaction state machine        *)
(*   src/services/imageUtils.ts   compositor                               *)
(*                                                                         *)
(* Every event handler is one action.  Its guard is the handler's own      *)
(* conditions and early returns; the JSX attributes that grey a button out *)
(* or hide it are not guards, so a handler can run in any state after      *)
(* mount, between any two other handlers: during a pointer interaction,    *)
(* and while a generation is pending.  An async handler is cut at its      *)
(* awaits: the part before the first await captures the render's values    *)
(* (layers, history, historyIndex, viewState, selection, brushMask and the *)
(* branch activeTool selects) in a pending request, and the continuation   *)
(* works on those captured values, as the closure does.                    *)
(*                                                                         *)
(* Indices: historyIndex is the code's 0-based index (-1: no entry);       *)
(* history[historyIndex + 1] is the entry it points at.                    *)
(* A nullable value is a sequence of length 0 (null) or 1 (the value).     *)
(***************************************************************************)
EXTENDS Integers, Sequences, FiniteSets, TLC

VARIABLES
    \* ---- App.tsx useState ------------------------------------------------
    layers,            \* MapLayer[]           current scene
    history,           \* MapLayer[][]         snapshots
    historyIndex,      \* number               cursor
    selection,         \* Rect | null          rectangle-tool selection (world)
    selectedLayerId,   \* string | null
    activeTool,        \* ActiveTool
    brushMask,         \* string | null        exported brush canvas
    isGenerating,      \* boolean
    error,             \* string | null
    viewState,         \* {x, y}
    \* ---- environment of App.tsx ------------------------------------------
    pending,           \* async handlers suspended at an await, with their closures
    now,               \* last value read from Date.now()
    mounted,           \* the mount effect of App has run
    eraserSize,        \* diameter of the eraser and of the brush (the Size slider)
    \* ---- MapCanvas.tsx useState / useRef ---------------------------------
    interactionMode,   \* 'none' | 'selecting' | 'moving_layer' | 'erasing' | 'brushing'
    startPos,          \* screen position of the last pointer-down
    mousePos,          \* screen position of the last pointer-move
    dragLayerStartPos, \* world position of the dragged layer at pointer-down
    editingLayerId,    \* string | null
    editingCanvas,     \* editingCanvasRef.current is set
    brushCanvas,       \* brushCanvasRef content: the stroke points painted on it
    brushContext,      \* brushCanvasRef.current.getContext('2d') is not null
    \* ---- observation -----------------------------------------------------
    lastOp,            \* "undo_noop" / "redo_noop" after an undo or redo that was
                       \* out of range, "commit" after a commit of the
                       \* scene store, "-" after anything else
    \* ---- imageUtils.ts compositor (the call being followed) ----------------
    compLayers,        \* the layers argument
    compLoads,         \* per visible layer: "loading" | "loaded" | "failed"
    compBuffer,        \* z-stack of the layers drawn so far, bottom first
    compLoaded,        \* loadedCount
    compResolved,      \* number of times resolve() has run
    \* ---- scripted round trip (commit A; commit B; undo; undo; redo) --------
    rtStep, rtSceneA,
    \* ---- one call of a pure function -------------------------------------
    callArgs,          \* its arguments
    callResult,        \* null before it returns, then its return value
    \* ---- the scene store as objects and references ------------------------
    heap               \* null, or the arrays and layer objects the store holds

appVars == <<layers, history, historyIndex, selection, selectedLayerId, activeTool,
             brushMask, isGenerating, error, viewState, pending, now, mounted,
             eraserSize>>
canvasVars == <<interactionMode, startPos, mousePos, dragLayerStartPos,
                editingLayerId, editingCanvas, brushCanvas, brushContext>>
compVars == <<compLayers, compLoads, compBuffer, compLoaded, compResolved>>
rtVars == <<rtStep, rtSceneA>>
callVars == <<callArgs, callResult>>
vars == <<appVars, canvasVars, lastOp, compVars, rtVars, callVars, heap>>

(***************************************************************************)
(* Program constants                                                       *)
(***************************************************************************)
CANVAS_WIDTH == 1024
CANVAS_HEIGHT == 1024
DefaultAssetSize == 256
EraserSize == 30
CropPadding == 20
ExistsEpsilon == 50
RegenEpsilon == 10
SelectionMinDrag == 10
ZIndexOffset == 10
EPSILON == 100
TARGET_SIZE == 1024
STRIP_SIZE == 256
outputSize == 1024
targetR == 255
targetG == 0
targetB == 255
threshold == 100
diffThreshold == 35
PanStep == 32
PanStepShift == 128

(***************************************************************************)
(* Bounds of the model                                                     *)
(***************************************************************************)
MaxHistory == 3      \* longest history a commit may produce
MaxLayers == 3       \* a generation starts only in a scene of fewer layers
MaxPending == 1      \* async handlers suspended at the same time
MaxClock == 0        \* largest Date.now() reading
MaxCell == 1         \* the camera is sent at most this many cells from the origin

Null == <<>>
Some(v) == <<v>>
IsNull(o) == o = <<>>
Val(o) == o[1]

Abs(n) == IF n < 0 THEN -n ELSE n
Max(a, b) == IF a >= b THEN a ELSE b
Min(a, b) == IF a <= b THEN a ELSE b

\* a quotient of two integers, kept exact
Frac(num, den) == [num |-> num, den |-> den]
FracTimes(n, f) == Frac(n * f.num, f.den)
FracPlus(f, g) ==
    IF f.den = g.den THEN Frac(f.num + g.num, f.den)
    ELSE Frac(f.num * g.den + g.num * f.den, f.den * g.den)
FracLeq(f, g) == f.num * g.den <= g.num * f.den
FracEq(f, g) ==
    IF f.den = g.den THEN f.num = g.num ELSE f.num * g.den = g.num * f.den

\* A number of the program is an integer when it is whole, and otherwise
\* the quotient record of its lowest terms: 399.5 is [num |-> 799, den |-> 2].
\* The two are told apart by the way they are written out.
IsQuotient(v) == Head(ToString(v)) = "["
AsFrac(v) == IF IsQuotient(v) THEN v ELSE Frac(v, 1)
RECURSIVE GCD(_, _)
GCD(a, b) == IF b = 0 THEN a ELSE GCD(b, a % b)
\* the number a quotient with a positive denominator stands for
Exact(f) ==
    LET g == GCD(Abs(f.num), f.den)
    IN IF g = f.den THEN f.num \div g ELSE Frac(f.num \div g, f.den \div g)
\* a + b, a - b, a <= b, a < b and |a - b| < eps on such numbers
NumPlus(a, b) ==
    IF IsQuotient(a) \/ IsQuotient(b) THEN Exact(FracPlus(AsFrac(a), AsFrac(b))) ELSE a + b
NumMinus(a, b) ==
    IF IsQuotient(a) \/ IsQuotient(b)
    THEN Exact(FracPlus(AsFrac(a), FracTimes(-1, AsFrac(b)))) ELSE a - b
NumLeq(a, b) ==
    IF IsQuotient(a) \/ IsQuotient(b) THEN FracLeq(AsFrac(a), AsFrac(b)) ELSE a <= b
NumLess(a, b) == ~NumLeq(b, a)
NumNear(a, b, eps) == NumLess(NumMinus(a, b), eps) /\ NumLess(NumMinus(b, a), eps)
\* v / 2 as the real division gives it
HalfOf(v) == Exact(Frac(v, 2))
\* Math.round(v / d) for d > 0: nearest integer, halves towards +Infinity
RoundDiv(v, d) == (2 * v + d) \div (2 * d)

Tools == {"pointer", "rectangle", "brush", "eraser"}
Directions == {"top", "bottom", "left", "right"}
\* pointer positions on the canvas element (screen space)
ScreenPts == {[x |-> 400, y |-> 400], [x |-> 520, y |-> 520]}
\* what makes a generation fail: no API key in the environment, no 2d context
\* for a canvas, the collaborator's call rejecting, its answer holding no
\* image, an image not decoding
FailCauses == {"no_api_key", "no_context", "transport", "no_image", "undecodable"}
\* positions of the Size slider (its range is 5..100)
BrushSizes == {30, 50}


(***************************************************************************)
(* Layers and ids                                                          *)
(***************************************************************************)
\* `layer-base-${gx}-${gy}`, `layer-base-${snapX}-${snapY}-${Date.now()}`,
\* `layer-${Date.now()}`: the parts that make the string
NavBaseId(gx, gy) == [kind |-> "layer-base", a |-> gx, b |-> gy, t |-> -1]
RegenBaseId(snapX, snapY, ts) == [kind |-> "layer-base", a |-> snapX, b |-> snapY, t |-> ts]
ObjectId(ts) == [kind |-> "layer", a |-> 0, b |-> 0, t |-> ts]

MapLayer(id, type, imageData, x, y, w, h, z) ==
    [id |-> id, type |-> type, imageData |-> imageData, x |-> x, y |-> y,
     width |-> w, height |-> h, visible |-> TRUE, zIndex |-> z]

Origin == [x |-> 0, y |-> 0]

SeqToSet(s) == {s[i] : i \in 1..Len(s)}
\* Array.prototype.filter, keep(l) deciding
SeqFilter(s, keep(_)) == SelectSeq(s, keep)
\* Array.prototype.map
SeqMap(s, f(_)) == [i \in 1..Len(s) |-> f(s[i])]
RemoveAt(s, i) == SubSeq(s, 1, i - 1) \o SubSeq(s, i + 1, Len(s))

RECURSIVE InsertDesc(_, _)
InsertDesc(sorted, l) ==
    IF sorted = <<>> THEN <<l>>
    ELSE IF sorted[1].zIndex >= l.zIndex THEN <<sorted[1]>> \o InsertDesc(Tail(sorted), l)
    ELSE <<l>> \o sorted
RECURSIVE SortDesc(_)
\* [...layers].sort((a, b) => b.zIndex - a.zIndex): stable, descending
SortDesc(s) == IF s = <<>> THEN <<>> ELSE InsertDesc(SortDesc(SubSeq(s, 1, Len(s) - 1)), s[Len(s)])

RECURSIVE InsertAsc(_, _)
InsertAsc(sorted, l) ==
    IF sorted = <<>> THEN <<l>>
    ELSE IF sorted[1].zIndex <= l.zIndex THEN <<sorted[1]>> \o InsertAsc(Tail(sorted), l)
    ELSE <<l>> \o sorted
RECURSIVE SortAsc(_)
\* [...layers].sort((a, b) => a.zIndex - b.zIndex): stable, ascending
SortAsc(s) == IF s = <<>> THEN <<>> ELSE InsertAsc(SortAsc(SubSeq(s, 1, Len(s) - 1)), s[Len(s)])

\* the point-in-layer test of handleMouseDown
Hit(l, wx, wy) ==
    /\ NumLeq(l.x, wx) /\ NumLeq(wx, NumPlus(l.x, l.width))
    /\ NumLeq(l.y, wy) /\ NumLeq(wy, NumPlus(l.y, l.height))

\* sortedLayers.find(l => l.visible && hit): a nullable layer
TopHit(ls, wx, wy) ==
    LET sorted == SortDesc(ls)
        idx == {i \in 1..Len(sorted) : sorted[i].visible /\ Hit(sorted[i], wx, wy)}
    IN IF idx = {} THEN Null
       ELSE Some(sorted[CHOOSE i \in idx : \A j \in idx : i <= j])

\* layers.find(l => l.id === id): a nullable layer
FindById(ls, idOpt) ==
    LET idx == {i \in 1..Len(ls) : ~IsNull(idOpt) /\ ls[i].id = Val(idOpt)}
    IN IF idx = {} THEN Null
       ELSE Some(ls[CHOOSE i \in idx : \A j \in idx : i <= j])

(***************************************************************************)
(* History (App.tsx 113-137)                                               *)
(***************************************************************************)
\* addToHistory with the cursor set to the new length instead of the new
\* last index
addToHistoryPastEnd(hist, idx, newLayers) ==
    LET newHistory == Append(SubSeq(hist, 1, idx + 1), newLayers)
    IN [history |-> newHistory, historyIndex |-> Len(newHistory), layers |-> newLayers]

\* addToHistory as run by a closure that sees (hist, idx): the three values
\* it passes to setHistory, setHistoryIndex and setLayers
addToHistory(hist, idx, newLayers) ==
    LET newHistory == Append(SubSeq(hist, 1, idx + 1), newLayers)
    IN [history |-> newHistory, historyIndex |-> Len(newHistory) - 1, layers |-> newLayers]

\* the bound on history growth
CanCommit(idx) == idx + 2 <= MaxHistory

\* the effect of MapCanvas on [brushMask]: a null mask clears the brush
\* canvas (ctx?.clearRect)
BrushCanvasAfter(newMask, canvas) ==
    IF newMask # brushMask /\ IsNull(newMask) /\ brushContext THEN {} ELSE canvas

InitComposite ==
    /\ compLayers = <<>>
    /\ compLoads = <<>>
    /\ compBuffer = <<>>
    /\ compLoaded = 0
    /\ compResolved = 0

InitScript ==
    /\ rtStep = 0
    /\ rtSceneA = <<>>

InitCall ==
    /\ callArgs = Null
    /\ callResult = Null
    /\ heap = Null

\* useState initial values of App and MapCanvas
InitEditor ==
    /\ layers = <<>>
    /\ history = <<>>
    /\ historyIndex = -1
    /\ selection = Null
    /\ selectedLayerId = Null
    /\ activeTool = "pointer"
    /\ brushMask = Null
    /\ isGenerating = FALSE
    /\ error = Null
    /\ viewState = [x |-> 0, y |-> 0]
    /\ pending = <<>>
    /\ now = 0
    /\ mounted = FALSE
    /\ eraserSize = EraserSize
    /\ interactionMode = "none"
    /\ startPos = Origin
    /\ mousePos = Origin
    /\ dragLayerStartPos = Origin
    /\ editingLayerId = Null
    /\ editingCanvas = FALSE
    /\ brushCanvas = {}
    /\ brushContext = TRUE
    /\ lastOp = "-"
    /\ InitComposite
    /\ InitScript

Init == InitEditor /\ InitCall

\* initialLayers of the mount effect (App.tsx 63-75)
BootLayers ==
    <<MapLayer(NavBaseId(0, 0), "base", "boot", 0, 0, CANVAS_WIDTH, CANVAS_HEIGHT, 0)>>

\* the mount effect: the bootstrap base layer and the first history entry
Bootstrap ==
    /\ ~mounted
    /\ mounted' = TRUE
    /\ IF Len(layers) = 0 /\ Len(history) = 0
       THEN LET initialLayers == BootLayers
            IN /\ layers' = initialLayers
               /\ history' = <<initialLayers>>
               /\ historyIndex' = 0
       ELSE UNCHANGED <<layers, history, historyIndex>>
    /\ lastOp' = "-"
    /\ UNCHANGED <<selection, selectedLayerId, activeTool, brushMask, isGenerating,
                   error, viewState, pending, now, eraserSize>>
    /\ UNCHANGED canvasVars

\* the Size slider of the toolbar: onChange sets eraserSize (App.tsx 550-557)
setEraserSize(size) ==
    /\ mounted
    /\ eraserSize' = size
    /\ lastOp' = "-"
    /\ UNCHANGED <<layers, history, historyIndex, selection, selectedLayerId, activeTool,
                   brushMask, isGenerating, error, viewState, pending, now, mounted>>
    /\ UNCHANGED canvasVars

\* setHistory / setHistoryIndex / setLayers of one addToHistory call
CommitWithin(cap, hist, idx, newLayers) ==
    LET r == addToHistory(hist, idx, newLayers)
    IN /\ idx + 2 <= cap
       /\ history' = r.history
       /\ historyIndex' = r.historyIndex
       /\ layers' = r.layers

Commit(hist, idx, newLayers) == CommitWithin(MaxHistory, hist, idx, newLayers)

\* handleUndo reporting the out-of-range request instead of ignoring it
handleUndoReporting ==
    /\ mounted
    /\ IF historyIndex > 0
       THEN /\ historyIndex' = historyIndex - 1
            /\ layers' = history[historyIndex - 1 + 1]
            /\ selection' = Null
            /\ error' = error
            /\ lastOp' = "-"
       ELSE /\ UNCHANGED <<historyIndex, layers, selection>>
            /\ error' = Some("Nothing to undo")
            /\ lastOp' = "undo_noop"
    /\ UNCHANGED <<history, selectedLayerId, activeTool, brushMask, isGenerating,
                   viewState, pending, now, mounted, eraserSize>>
    /\ UNCHANGED canvasVars

handleUndo ==
    /\ mounted
    /\ IF historyIndex > 0
       THEN /\ historyIndex' = historyIndex - 1
            /\ layers' = history[historyIndex - 1 + 1]
            /\ selection' = Null
            /\ lastOp' = "-"
       ELSE /\ UNCHANGED <<historyIndex, layers, selection>>
            /\ lastOp' = "undo_noop"
    /\ UNCHANGED <<history, selectedLayerId, activeTool, brushMask, isGenerating,
                   error, viewState, pending, now, mounted, eraserSize>>
    /\ UNCHANGED canvasVars

\* handleRedo moving the cursor without restoring the scene under it
handleRedoKeepingScene ==
    /\ mounted
    /\ IF historyIndex < Len(history) - 1
       THEN /\ historyIndex' = historyIndex + 1
            /\ layers' = layers
            /\ selection' = Null
            /\ lastOp' = "-"
       ELSE /\ UNCHANGED <<historyIndex, layers, selection>>
            /\ lastOp' = "redo_noop"
    /\ UNCHANGED <<history, selectedLayerId, activeTool, brushMask, isGenerating,
                   error, viewState, pending, now, mounted, eraserSize>>
    /\ UNCHANGED canvasVars

handleRedo ==
    /\ mounted
    /\ IF historyIndex < Len(history) - 1
       THEN /\ historyIndex' = historyIndex + 1
            /\ layers' = history[historyIndex + 1 + 1]
            /\ selection' = Null
            /\ lastOp' = "-"
       ELSE /\ UNCHANGED <<historyIndex, layers, selection>>
            /\ lastOp' = "redo_noop"
    /\ UNCHANGED <<history, selectedLayerId, activeTool, brushMask, isGenerating,
                   error, viewState, pending, now, mounted, eraserSize>>
    /\ UNCHANGED canvasVars

handleToolChange(tool) ==
    /\ mounted
    /\ activeTool' = tool
    /\ selection' = IF tool # "rectangle" THEN Null ELSE selection
    /\ brushMask' = IF tool # "brush" THEN Null ELSE brushMask
    /\ UNCHANGED brushContext
    /\ brushCanvas' = BrushCanvasAfter(brushMask', brushCanvas)
    /\ lastOp' = "-"
    /\ UNCHANGED <<layers, history, historyIndex, selectedLayerId, isGenerating,
                   error, viewState, pending, now, mounted, eraserSize>>
    /\ UNCHANGED <<interactionMode, startPos, mousePos, dragLayerStartPos,
                   editingLayerId, editingCanvas>>

\* the X button of the prompt bar (App.tsx 666)
handleClearTransient ==
    /\ mounted
    /\ selection' = Null
    /\ brushMask' = Null
    /\ UNCHANGED brushContext
    /\ brushCanvas' = BrushCanvasAfter(brushMask', brushCanvas)
    /\ lastOp' = "-"
    /\ UNCHANGED <<layers, history, historyIndex, selectedLayerId, activeTool,
                   isGenerating, error, viewState, pending, now, mounted, eraserSize>>
    /\ UNCHANGED <<interactionMode, startPos, mousePos, dragLayerStartPos,
                   editingLayerId, editingCanvas>>

\* the Export Zip button: the archive is built from the scene and handed to
\* the browser; built is whether the try block ran to its end (compositeLayers
\* gave a data URL, zip.file and zip.generateAsync did not fail).  The catch
\* block sets the error and nothing else
handleExportZip(built) ==
    /\ mounted
    /\ error' = IF built THEN error ELSE Some("Failed to create ZIP export")
    /\ lastOp' = "-"
    /\ UNCHANGED <<layers, history, historyIndex, selection, selectedLayerId, activeTool,
                   brushMask, isGenerating, viewState, pending, now, mounted, eraserSize>>
    /\ UNCHANGED canvasVars

\* the X button of the error toast (App.tsx 879)
handleDismissError ==
    /\ mounted
    /\ ~IsNull(error)
    /\ error' = Null
    /\ lastOp' = "-"
    /\ UNCHANGED <<layers, history, historyIndex, selection, selectedLayerId, activeTool,
                   brushMask, isGenerating, viewState, pending, now, mounted, eraserSize>>
    /\ UNCHANGED canvasVars

handleDeleteLayer(id) ==
    /\ mounted
    /\ LET keep(l) == l.id # id
       IN Commit(history, historyIndex, SeqFilter(layers, keep))
    /\ selectedLayerId' = IF selectedLayerId = Some(id) THEN Null ELSE selectedLayerId
    /\ lastOp' = "-"
    /\ UNCHANGED <<selection, activeTool, brushMask, isGenerating, error, viewState,
                   pending, now, mounted, eraserSize>>
    /\ UNCHANGED canvasVars

handleToggleVisibility(id) ==
    /\ mounted
    /\ LET flip(l) == IF l.id = id THEN [l EXCEPT !.visible = ~l.visible] ELSE l
       IN Commit(history, historyIndex, SeqMap(layers, flip))
    /\ lastOp' = "-"
    /\ UNCHANGED <<selection, selectedLayerId, activeTool, brushMask, isGenerating,
                   error, viewState, pending, now, mounted, eraserSize>>
    /\ UNCHANGED canvasVars

\* LayerPanel row click: onSelectLayer(layer.id)
handleSelectLayer(id) ==
    /\ mounted
    /\ selectedLayerId' = Some(id)
    /\ lastOp' = "-"
    /\ UNCHANGED <<layers, history, historyIndex, selection, activeTool, brushMask,
                   isGenerating, error, viewState, pending, now, mounted, eraserSize>>
    /\ UNCHANGED canvasVars


(***************************************************************************)
(* Pointer interaction (MapCanvas.tsx 257-421)                             *)
(***************************************************************************)
\* performBrush: one more disc on the brush canvas, of diameter eraserSize,
\* when the canvas has its 2d context (ctx)
performBrush(canvas, screenPos, size, ctx) ==
    IF ctx THEN canvas \cup {[x |-> screenPos.x, y |-> screenPos.y, size |-> size]}
    ELSE canvas

\* updateLayerPosition: setLayers(prev => prev.map(...))
updateLayerPosition(ls, idOpt, x, y) ==
    LET move(l) == IF l.id = Val(idOpt) THEN [l EXCEPT !.x = x, !.y = y] ELSE l
    IN SeqMap(ls, move)

\* updateLayerData's map: { ...l, imageData }
updateLayerData(ls, idOpt, imageData) ==
    LET put(l) == IF l.id = Val(idOpt) THEN [l EXCEPT !.imageData = imageData] ELSE l
    IN SeqMap(ls, put)

\* the layer a pointer-tool press grabs (MapCanvas.tsx 310-322): the topmost
\* visible layer under the point, unless the selected layer is under it too
PointerTarget(ls, selId, wx, wy) ==
    LET targetLayer == TopHit(ls, wx, wy)
        currentSelected == FindById(ls, selId)
    IN IF /\ ~IsNull(currentSelected)
          /\ Val(currentSelected).visible
          /\ Hit(Val(currentSelected), wx, wy)
       THEN currentSelected
       ELSE targetLayer

\* a press that grabs whatever layer is under the pointer
IsDraggableAnyType(targetLayer) == ~IsNull(targetLayer)

\* targetLayer && targetLayer.type !== 'base' (MapCanvas.tsx 324)
IsDraggable(targetLayer) == ~IsNull(targetLayer) /\ Val(targetLayer).type # "base"

\* cached: imageCache holds a decoded image for the pressed layer and the
\* edit canvas made from it got its 2d context (MapCanvas.tsx 276-286)
handleMouseDown(screenPos, cached) ==
    LET wx == screenPos.x + viewState.x
        wy == screenPos.y + viewState.y
    IN
    /\ mounted
    /\ startPos' = screenPos
    /\ CASE activeTool = "eraser" ->
            LET targetLayer == TopHit(layers, wx, wy)
            IN IF ~IsNull(targetLayer)
               THEN /\ selectedLayerId' = Some(Val(targetLayer).id)
                    /\ editingLayerId' = Some(Val(targetLayer).id)
                    /\ interactionMode' = "erasing"
                    /\ editingCanvas' = IF cached THEN TRUE ELSE editingCanvas
                    /\ lastOp' = "-"
                    /\ UNCHANGED <<selection, brushCanvas, brushContext, dragLayerStartPos>>
               ELSE /\ lastOp' = "-"
                    /\ UNCHANGED <<selectedLayerId, editingLayerId, interactionMode,
                                   editingCanvas, selection, brushCanvas, brushContext, dragLayerStartPos>>
         [] activeTool = "brush" ->
            /\ interactionMode' = "brushing"
            /\ UNCHANGED brushContext
            /\ brushCanvas' = performBrush(brushCanvas, screenPos, eraserSize, brushContext)
            /\ selection' = Null
            /\ lastOp' = "-"
            /\ UNCHANGED <<selectedLayerId, editingLayerId, editingCanvas, dragLayerStartPos>>
         [] activeTool = "rectangle" ->
            /\ interactionMode' = "selecting"
            /\ selectedLayerId' = Null
            /\ selection' = Null
            /\ lastOp' = "-"
            /\ UNCHANGED <<editingLayerId, editingCanvas, brushCanvas, brushContext, dragLayerStartPos>>
         [] activeTool = "pointer" ->
            LET targetLayer == PointerTarget(layers, selectedLayerId, wx, wy)
            IN IF IsDraggable(targetLayer)
               THEN /\ selectedLayerId' = Some(Val(targetLayer).id)
                    /\ interactionMode' = "moving_layer"
                    /\ dragLayerStartPos' = [x |-> Val(targetLayer).x, y |-> Val(targetLayer).y]
                    /\ lastOp' = "-"
                    /\ UNCHANGED <<selection, editingLayerId, editingCanvas, brushCanvas, brushContext>>
               ELSE /\ selectedLayerId' = Null
                    /\ lastOp' = "-"
                    /\ UNCHANGED <<interactionMode, dragLayerStartPos, selection,
                                   editingLayerId, editingCanvas, brushCanvas, brushContext>>
    /\ UNCHANGED <<layers, history, historyIndex, activeTool, brushMask, isGenerating,
                   error, viewState, pending, now, mounted, eraserSize, mousePos>>

\* handleMouseMove committing every frame of a drag
handleMouseMoveCommitting(screenPos) ==
    /\ mounted
    /\ mousePos' = screenPos
    /\ IF /\ interactionMode = "moving_layer"
          /\ ~IsNull(selectedLayerId)
          /\ activeTool = "pointer"
          /\ CanCommit(historyIndex)
       THEN Commit(history, historyIndex,
                   updateLayerPosition(layers, selectedLayerId,
                                       NumPlus(dragLayerStartPos.x, screenPos.x - startPos.x),
                                       NumPlus(dragLayerStartPos.y, screenPos.y - startPos.y)))
       ELSE UNCHANGED <<layers, history, historyIndex>>
    /\ UNCHANGED brushContext
    /\ brushCanvas' = IF interactionMode = "brushing"
                      THEN performBrush(brushCanvas, screenPos, eraserSize, brushContext)
                      ELSE brushCanvas
    /\ lastOp' = "-"
    /\ UNCHANGED <<selection, selectedLayerId, activeTool, brushMask,
                   isGenerating, error, viewState, pending, now, mounted, eraserSize>>
    /\ UNCHANGED <<interactionMode, startPos, dragLayerStartPos, editingLayerId, editingCanvas>>

handleMouseMove(screenPos) ==
    /\ mounted
    /\ mousePos' = screenPos
    /\ layers' = IF /\ interactionMode = "moving_layer"
                    /\ ~IsNull(selectedLayerId)
                    /\ activeTool = "pointer"
                 THEN updateLayerPosition(layers, selectedLayerId,
                                          NumPlus(dragLayerStartPos.x, screenPos.x - startPos.x),
                                          NumPlus(dragLayerStartPos.y, screenPos.y - startPos.y))
                 ELSE layers
    /\ UNCHANGED brushContext
    /\ brushCanvas' = IF interactionMode = "brushing"
                      THEN performBrush(brushCanvas, screenPos, eraserSize, brushContext)
                      ELSE brushCanvas
    /\ lastOp' = "-"
    /\ UNCHANGED <<history, historyIndex, selection, selectedLayerId, activeTool, brushMask,
                   isGenerating, error, viewState, pending, now, mounted, eraserSize>>
    /\ UNCHANGED <<interactionMode, startPos, dragLayerStartPos, editingLayerId, editingCanvas>>

\* the rectangle handleMouseUp hands to setSelection, or null when the drag
\* is too small and setSelection is not called
DragSelection(start, mouse, view) ==
    LET w == mouse.x - start.x
        h == mouse.y - start.y
    IN IF Abs(w) > SelectionMinDrag /\ Abs(h) > SelectionMinDrag
       THEN Some([x |-> (IF w < 0 THEN mouse.x ELSE start.x) + view.x,
                  y |-> (IF h < 0 THEN mouse.y ELSE start.y) + view.y,
                  width |-> Abs(w), height |-> Abs(h)])
       ELSE Null

\* a pointer-up that leaves a brush stroke open
ModeAfterUpSticky(mode) == IF mode = "brushing" THEN mode ELSE "none"

\* setInteractionMode('none'), the last statement of handleMouseUp
ModeAfterUp(mode) == "none"

\* pointer-up and pointer-leave share this handler
handleMouseUp ==
    /\ mounted
    /\ interactionMode' = ModeAfterUp(interactionMode)
    /\ CASE interactionMode = "moving_layer" ->
            \* onMoveEnd: addToHistory(layers)
            /\ Commit(history, historyIndex, layers)
            /\ lastOp' = "-"
            /\ UNCHANGED <<selection, editingLayerId, editingCanvas, brushMask>>
         [] interactionMode = "selecting" ->
            LET sel == DragSelection(startPos, mousePos, viewState)
            IN /\ selection' = IF IsNull(sel) THEN selection ELSE sel
               /\ lastOp' = "-"
               /\ UNCHANGED <<layers, history, historyIndex, editingLayerId,
                              editingCanvas, brushMask>>
         [] interactionMode = "erasing" ->
            IF ~IsNull(editingLayerId) /\ editingCanvas
            THEN /\ Commit(history, historyIndex,
                           updateLayerData(layers, editingLayerId, "erased"))
                 /\ editingLayerId' = Null
                 /\ editingCanvas' = FALSE
                 /\ lastOp' = "-"
                 /\ UNCHANGED <<selection, brushMask>>
            ELSE /\ lastOp' = "-"
                 /\ UNCHANGED <<layers, history, historyIndex, selection,
                                editingLayerId, editingCanvas, brushMask>>
         [] interactionMode = "brushing" ->
            /\ brushMask' = Some(brushCanvas)
            /\ lastOp' = "-"
            /\ UNCHANGED <<layers, history, historyIndex, selection,
                           editingLayerId, editingCanvas>>
         [] interactionMode = "none" ->
            /\ lastOp' = "-"
            /\ UNCHANGED <<layers, history, historyIndex, selection,
                           editingLayerId, editingCanvas, brushMask>>
    /\ UNCHANGED <<selectedLayerId, activeTool, isGenerating, error, viewState,
                   pending, now, mounted, eraserSize>>
    /\ UNCHANGED <<startPos, mousePos, dragLayerStartPos, brushCanvas, brushContext>>


(***************************************************************************)
(* Generation handlers (App.tsx 145-423)                                   *)
(***************************************************************************)
\* The failures a handler's catch block can see, by cause and by request.
\*   no_api_key   getClient throws, first thing in each of the three
\*                generators (geminiService.ts 9, 35, 126, 173)
\*   transport    ai.models.generateContent rejects
\*   no_image     the answer holds no inlineData part (114, 157, 308)
\*   no_context   canvas.getContext('2d') returned null.  Neighbor path: the
\*                input canvas (208) or the canvas of cropAndResize
\*                (imageUtils.ts 211).  Asset paths: removeMagentaBackground
\*                (16); getCompositeRect resolving '' (128), which the next
\*                step fails to load (190, 217); overlayImage (185);
\*                cropAndResize (211); the first canvas of
\*                createDifferenceLayer (243).  generateBaseTexture uses no
\*                canvas.
\*   undecodable  the generator's image fires onerror: in cropAndResize on
\*                the neighbor path (geminiService.ts 319, imageUtils.ts 217),
\*                in removeMagentaBackground on the isolated asset path
\*                (App.tsx 352, imageUtils.ts 50).
\* Nothing is thrown, and the request stays pending, when the generator's
\* image does not decode on the brush and rectangle paths or when the second
\* canvas of createDifferenceLayer gets no context (it sets no onerror and
\* returns at 250 without settling); handleGenerateBase stores the image
\* without decoding it.
CanFail(r, cause) ==
    CASE cause = "no_context" -> r.kind # "base"
      [] cause = "undecodable" ->
         r.kind = "seamless" \/ (r.kind = "asset" /\ r.mode = "isolated")
      [] OTHER -> TRUE

\* What the catch block gets, one of these per cause.  Some(message) is a
\* value whose message can be read: the text of an Error; "" for an Error
\* without text; null (undefined) for a value that has no message, which is
\* what a rejection with a string (imageUtils.ts 18, 185, 211, 243) or with
\* the error Event of an image (50, 189, 190, 217) hands over.  Null is a
\* rejection with undefined or null itself: the service rethrows whatever the
\* client rejected with (geminiService.ts 117, 160, 324), and the client's
\* rejection value is not of the program's making.  "request failed" stands
\* for any text of the transport.
Thrown(kind, cause) ==
    CASE cause = "no_api_key" ->
         {Some(Some("API Key not found in environment variables"))}
      [] cause = "transport" ->
         {Some(Some("request failed")), Some(Some("")), Some(Null), Null}
      [] cause = "no_image" ->
         {Some(Some(IF kind = "asset" THEN "No image data found in response"
                    ELSE IF kind = "base" THEN "No base texture generated"
                    ELSE "No seamless texture generated"))}
      [] cause = "no_context" ->
         IF kind = "seamless" THEN {Some(Some("Canvas context failed")), Some(Null)}
         ELSE IF kind = "asset" THEN {Some(Null)} ELSE {}
      [] cause = "undecodable" -> IF kind = "base" THEN {} ELSE {Some(Null)}

\* prefix + e.message: an undefined message is written out as "undefined"
ErrorText(prefix, message) ==
    prefix \o (IF IsNull(message) THEN "undefined" ELSE Val(message))

\* err.message || fallback
MessageOr(message, fallback) ==
    IF IsNull(message) \/ Val(message) = "" THEN fallback ELSE Val(message)

\* setError("Failed to generate neighbor: " + e.message), App.tsx 238.
\* Reading e.message of undefined or null throws inside the catch block:
\* setError is not reached and the error text stays what it was.
NeighborErrorAfter(e) ==
    IF IsNull(e) THEN error
    ELSE Some(ErrorText("Failed to generate neighbor: ", Val(e)))

\* setError(err.message || fallback), App.tsx 376 and 419, with the same
\* throw on undefined or null
ErrorAfter(e, fallback) ==
    IF IsNull(e) THEN error ELSE Some(MessageOr(Val(e), fallback))

\* what an async handler's closure holds while it is suspended
Request(kind, stage, mode, cell) ==
    [kind |-> kind, stage |-> stage, mode |-> mode, cell |-> cell,
     layers |-> layers, history |-> history, historyIndex |-> historyIndex,
     view |-> viewState, selection |-> selection, brushMask |-> brushMask]

NoCell == [gx |-> 0, gy |-> 0]

\* the bound on where the camera may be sent
CellInRange(cell) == Abs(cell.gx) + Abs(cell.gy) <= MaxCell

\* the bound on what may be started
CanStart == Len(pending) < MaxPending /\ Len(layers) < MaxLayers

\* the cell handleNavigate moves to
NextCell(view, direction) ==
    LET currentGridX == RoundDiv(view.x, CANVAS_WIDTH)
        currentGridY == RoundDiv(view.y, CANVAS_HEIGHT)
    IN [gx |-> currentGridX + (IF direction = "right" THEN 1 ELSE 0)
                            - (IF direction = "left" THEN 1 ELSE 0),
        gy |-> currentGridY + (IF direction = "bottom" THEN 1 ELSE 0)
                            - (IF direction = "top" THEN 1 ELSE 0)]

\* an existence test that looks at the object layers
ObjectExistsAt(ls, targetX, targetY) ==
    \E i \in 1..Len(ls) :
        /\ ls[i].type = "object"
        /\ NumNear(ls[i].x, targetX, ExistsEpsilon)
        /\ NumNear(ls[i].y, targetY, ExistsEpsilon)

\* layers.some(l => base within 50 of the target)
BaseExistsAt(ls, targetX, targetY) ==
    \E i \in 1..Len(ls) :
        /\ ls[i].type = "base"
        /\ NumNear(ls[i].x, targetX, ExistsEpsilon)
        /\ NumNear(ls[i].y, targetY, ExistsEpsilon)

\* where the neighbor of the target tile lies in a direction (App.tsx 181,
\* 188, 195, 202)
ExpectedNeighbor(direction, targetX, targetY) ==
    [x |-> targetX + (IF direction = "right" THEN CANVAS_WIDTH ELSE 0)
                   - (IF direction = "left" THEN CANVAS_WIDTH ELSE 0),
     y |-> targetY + (IF direction = "bottom" THEN CANVAS_HEIGHT ELSE 0)
                   - (IF direction = "top" THEN CANVAS_HEIGHT ELSE 0)]

\* a neighbor check that counts layers of any kind
hasNeighborAnyKind(ls, direction, targetX, targetY) ==
    LET e == ExpectedNeighbor(direction, targetX, targetY)
    IN \E i \in 1..Len(ls) :
           NumNear(ls[i].x, e.x, EPSILON) /\ NumNear(ls[i].y, e.y, EPSILON)

\* hasLeft, hasRight, hasTop, hasBottom
hasNeighbor(ls, direction, targetX, targetY) ==
    LET e == ExpectedNeighbor(direction, targetX, targetY)
    IN \E i \in 1..Len(ls) :
           /\ ls[i].type = "base"
           /\ NumNear(ls[i].x, e.x, EPSILON)
           /\ NumNear(ls[i].y, e.y, EPSILON)

\* the four checks of one handleNavigate call
neighborsOf(ls, targetX, targetY) ==
    [d \in Directions |-> hasNeighbor(ls, d, targetX, targetY)]

\* handleNavigate up to its first await
handleNavigate(direction) ==
    LET cell == NextCell(viewState, direction)
        targetX == cell.gx * CANVAS_WIDTH
        targetY == cell.gy * CANVAS_HEIGHT
    IN
    /\ mounted
    /\ CellInRange(cell)
    /\ viewState' = [x |-> targetX, y |-> targetY]
    /\ IF ~BaseExistsAt(layers, targetX, targetY)
       THEN /\ CanStart
            /\ isGenerating' = TRUE
            /\ pending' = Append(pending, Request("seamless", "collab", "tile", cell))
            /\ lastOp' = "-"
       ELSE /\ lastOp' = "-"
            /\ UNCHANGED <<isGenerating, pending>>
    /\ UNCHANGED <<layers, history, historyIndex, selection, selectedLayerId, activeTool,
                   brushMask, error, now, mounted, eraserSize>>
    /\ UNCHANGED canvasVars

\* a new tile placed at the world origin whatever its cell
SeamlessLayerAtOrigin(cell) ==
    MapLayer(NavBaseId(cell.gx, cell.gy), "base", "seamless",
             0, 0, CANVAS_WIDTH, CANVAS_HEIGHT, 0)

\* the new base layer of handleNavigate (App.tsx 220-231)
SeamlessLayer(cell) ==
    MapLayer(NavBaseId(cell.gx, cell.gy), "base", "seamless",
             cell.gx * CANVAS_WIDTH, cell.gy * CANVAS_HEIGHT, CANVAS_WIDTH, CANVAS_HEIGHT, 0)

\* generateSeamlessTexture returned an image: App.tsx 219-234, 240
NavigateResolve(i) ==
    /\ i \in 1..Len(pending)
    /\ pending[i].kind = "seamless"
    /\ LET r == pending[i]
       IN Commit(r.history, r.historyIndex, Append(r.layers, SeamlessLayer(r.cell)))
    /\ isGenerating' = FALSE
    /\ pending' = RemoveAt(pending, i)
    /\ lastOp' = "-"
    /\ UNCHANGED <<selection, selectedLayerId, activeTool, brushMask, error, viewState,
                   now, mounted, eraserSize>>
    /\ UNCHANGED canvasVars

\* a catch block that keeps the tile it was about to add
NavigateRejectKeepingTile(i, cause) ==
    /\ i \in 1..Len(pending)
    /\ pending[i].kind = "seamless"
    /\ CanFail(pending[i], cause)
    /\ layers' = Append(layers, [SeamlessLayer(pending[i].cell) EXCEPT !.imageData = ""])
    /\ \E e \in Thrown("seamless", cause) : error' = NeighborErrorAfter(e)
    /\ isGenerating' = FALSE
    /\ pending' = RemoveAt(pending, i)
    /\ lastOp' = "-"
    /\ UNCHANGED <<history, historyIndex, selection, selectedLayerId, activeTool,
                   brushMask, viewState, now, mounted, eraserSize>>
    /\ UNCHANGED canvasVars

\* a step of the try block threw: App.tsx 236-241
NavigateReject(i, cause) ==
    /\ i \in 1..Len(pending)
    /\ pending[i].kind = "seamless"
    /\ CanFail(pending[i], cause)
    /\ \E e \in Thrown("seamless", cause) : error' = NeighborErrorAfter(e)
    /\ isGenerating' = FALSE
    /\ pending' = RemoveAt(pending, i)
    /\ lastOp' = "-"
    /\ UNCHANGED <<layers, history, historyIndex, selection, selectedLayerId, activeTool,
                   brushMask, viewState, now, mounted, eraserSize>>
    /\ UNCHANGED canvasVars

\* The text of a prompt field is the sequence of its UTF-16 code units.
\* What String.prototype.trim removes, the WhiteSpace and LineTerminator
\* code points of ECMAScript: TAB, LF, VT, FF, CR, SPACE, NO-BREAK SPACE,
\* U+1680, U+2000..U+200A, U+2028, U+2029, U+202F, U+205F, U+3000 and the
\* byte order mark U+FEFF
WhiteSpace ==
    {9, 10, 11, 12, 13, 32, 160, 5760} \cup (8192..8202)
    \cup {8232, 8233, 8239, 8287, 12288, 65279}

RECURSIVE trimStart(_)
trimStart(text) ==
    IF Len(text) > 0 /\ Head(text) \in WhiteSpace THEN trimStart(Tail(text)) ELSE text

RECURSIVE trimEnd(_)
trimEnd(text) ==
    IF Len(text) > 0 /\ text[Len(text)] \in WhiteSpace
    THEN trimEnd(SubSeq(text, 1, Len(text) - 1)) ELSE text

\* String.prototype.trim
trim(text) == trimEnd(trimStart(text))

\* texts typed into the prompt fields: nothing, three spaces, a form feed
\* between a no-break space and an ideographic space, "a tree", "grassland"
NoText == <<>>
Spaces == <<32, 32, 32>>
ExoticSpaces == <<160, 12, 12288>>
ATree == <<97, 32, 116, 114, 101, 101>>
Grassland == <<103, 114, 97, 115, 115, 108, 97, 110, 100>>
BlankTexts == {NoText, Spaces, ExoticSpaces}
\* what the prompt field of the asset panel holds in the tools slice: blank
\* texts and a prompt
AssetPrompts == {NoText, ExoticSpaces, ATree}

\* which of the three branches of handleGenerateAsset runs (App.tsx 264, 318, 349)
AssetMode(mask, tool, sel) ==
    IF ~IsNull(mask) /\ tool = "brush" THEN "brush"
    ELSE IF ~IsNull(sel) THEN "rectangle"
    ELSE "isolated"

\* handleGenerateAsset up to its first await; prompt is the text field
handleGenerateAsset(promptText) ==
    /\ mounted
    /\ IF Len(trim(promptText)) = 0
       THEN /\ lastOp' = "-"
            /\ UNCHANGED <<isGenerating, error, pending>>
       ELSE LET mode == AssetMode(brushMask, activeTool, selection)
            IN /\ CanStart
               /\ isGenerating' = TRUE
               /\ error' = Null
               /\ pending' = Append(pending,
                                Request("asset", IF mode = "brush" THEN "bounds" ELSE "collab",
                                        mode, NoCell))
               /\ lastOp' = "-"
    /\ UNCHANGED <<layers, history, historyIndex, selection, selectedLayerId, activeTool,
                   brushMask, viewState, now, mounted, eraserSize>>
    /\ UNCHANGED canvasVars

\* least and greatest element of a set of integers that is not empty
MinOf(S) == CHOOSE m \in S : \A n \in S : m <= n
MaxOf(S) == -MinOf({-n : n \in S})

\* distance along one axis from the centre c of a disc to the pixel [p, p + 1]
Gap(c, p) == Max(0, Max(p - c, c - (p + 1)))

\* the least such distance over the pixels 0 .. side - 1
MinGap(c, side) == IF c < 0 THEN -c ELSE IF c > side THEN c - side ELSE 0

\* The pixel columns of a canvas `side` wide and `across` high that hold a
\* pixel of alpha > 0 of one disc, of diameter size and centred at c along
\* the axis and at d across it (rows: the same with the axes exchanged).
\* ctx.arc and fill leave alpha > 0 in every pixel whose square comes closer
\* to the centre than size / 2; a column has such a pixel when its pixel
\* nearest to the centre has one: gap^2 + off^2 < (size / 2)^2.
Touched(c, d, size, side, across) ==
    LET off == MinGap(d, across)
        reach == size * size - 4 * off * off
    IN {p \in Max(0, c - size \div 2 - 2)..Min(side - 1, c + size \div 2 + 1) :
           LET gap == Gap(c, p) IN 4 * gap * gap < reach}

\* getContentBounds of an exported brush canvas (imageUtils.ts 297-341):
\* null without a 2d context; else the mask, CANVAS_WIDTH x CANVAS_HEIGHT as
\* the brush canvas is, is drawn at (0, 0) of a canvas of canvasW x canvasH
\* and scanned for the first and last pixel of alpha > 0 in each direction,
\* null when there is none; width and height are differences of pixel
\* indices (maxX - minX)
getContentBounds(mask, canvasW, canvasH, ctx) ==
    LET w == Min(canvasW, CANVAS_WIDTH)
        h == Min(canvasH, CANVAS_HEIGHT)
        cols == UNION {Touched(q.x, q.y, q.size, w, h) : q \in mask}
        rows == UNION {Touched(q.y, q.x, q.size, h, w) : q \in mask}
    IN IF ~ctx \/ cols = {} THEN Null
       ELSE LET minX == MinOf(cols)
                maxX == MaxOf(cols)
                minY == MinOf(rows)
                maxY == MaxOf(rows)
            IN Some([x |-> minX, y |-> minY,
                     width |-> maxX - minX, height |-> maxY - minY])

\* the bounds handleGenerateAsset gets when the canvas of the scan has its
\* context (App.tsx 266)
MaskBounds(mask) == getContentBounds(mask, CANVAS_WIDTH, CANVAS_HEIGHT, TRUE)

\* world placement of the new object layer, per branch (App.tsx 253-256,
\* 282-313, 325-340)
\* the divisions are real ones: cx - cropSize / 2 with cx = bounds.x +
\* bounds.width / 2 is (2 * bounds.x + bounds.width - cropSize) / 2, a whole
\* number or a half
AssetTarget(r) ==
    CASE r.mode = "brush" ->
         LET bounds == Val(MaskBounds(Val(r.brushMask)))
             size == Max(bounds.width, bounds.height)
             cropSize == size + CropPadding * 2
             twiceCropX == 2 * bounds.x + bounds.width - cropSize
             twiceCropY == 2 * bounds.y + bounds.height - cropSize
         IN [x |-> HalfOf(2 * r.view.x + twiceCropX),
             y |-> HalfOf(2 * r.view.y + twiceCropY),
             width |-> cropSize, height |-> cropSize]
      [] r.mode = "rectangle" ->
         LET sel == Val(r.selection)
             size == Max(sel.width, sel.height)
         IN [x |-> HalfOf(2 * sel.x + sel.width - size),
             y |-> HalfOf(2 * sel.y + sel.height - size),
             width |-> size, height |-> size]
      [] r.mode = "isolated" ->
         [x |-> r.view.x + CANVAS_WIDTH \div 2 - DefaultAssetSize \div 2,
          y |-> r.view.y + CANVAS_HEIGHT \div 2 - DefaultAssetSize \div 2,
          width |-> DefaultAssetSize, height |-> DefaultAssetSize]

\* the brush branch without its check of the bounds
AssetBoundsUnchecked(i, ctx) ==
    /\ i \in 1..Len(pending)
    /\ pending[i].kind = "asset" /\ pending[i].stage = "bounds"
    /\ pending' = [pending EXCEPT ![i].stage = "collab"]
    /\ lastOp' = "-"
    /\ UNCHANGED <<error, isGenerating>>
    /\ UNCHANGED <<layers, history, historyIndex, selection, selectedLayerId, activeTool,
                   brushMask, viewState, now, mounted, eraserSize>>
    /\ UNCHANGED canvasVars

\* the brush branch after `await getContentBounds`: throw when there are no
\* bounds (an empty mask, or a scan canvas without its 2d context: ctx),
\* else go on to the steps that lead to the collaborator call
AssetBounds(i, ctx) ==
    /\ i \in 1..Len(pending)
    /\ pending[i].kind = "asset" /\ pending[i].stage = "bounds"
    /\ lastOp' = "-"
    /\ UNCHANGED <<layers, history, historyIndex, selection, selectedLayerId, activeTool,
                   brushMask, viewState, now, mounted, eraserSize>>
    /\ UNCHANGED canvasVars
    /\ IF IsNull(getContentBounds(Val(pending[i].brushMask),
                                  CANVAS_WIDTH, CANVAS_HEIGHT, ctx))
       THEN /\ error' = Some("Paint something first!")
            /\ isGenerating' = FALSE
            /\ pending' = RemoveAt(pending, i)
       ELSE /\ pending' = [pending EXCEPT ![i].stage = "collab"]
            /\ UNCHANGED <<error, isGenerating>>

\* the new object layer of handleGenerateAsset (App.tsx 355-366)
AssetLayer(r, ts) ==
    LET t == AssetTarget(r)
    IN MapLayer(ObjectId(ts), "object", "asset", t.x, t.y, t.width, t.height,
                Len(r.layers) + ZIndexOffset)

\* generateMapAsset returned an image and the handler made the layer's image
\* of it: App.tsx 307/346/352, 315, 355-373, 378
AssetResolveWithin(cap, i, ts) ==
    /\ i \in 1..Len(pending)
    /\ pending[i].kind = "asset" /\ pending[i].stage = "collab"
    /\ ts >= now /\ ts <= MaxClock
    /\ now' = ts
    /\ LET r == pending[i]
       IN /\ CommitWithin(cap, r.history, r.historyIndex,
                          Append(r.layers, AssetLayer(r, ts)))
          /\ brushMask' = IF r.mode = "brush" THEN Null ELSE brushMask
    /\ UNCHANGED brushContext
    /\ brushCanvas' = BrushCanvasAfter(brushMask', brushCanvas)
    /\ selection' = Null
    /\ activeTool' = "pointer"
    /\ isGenerating' = FALSE
    /\ pending' = RemoveAt(pending, i)
    /\ lastOp' = "-"
    /\ UNCHANGED <<selectedLayerId, error, viewState, mounted, eraserSize>>
    /\ UNCHANGED <<interactionMode, startPos, mousePos, dragLayerStartPos,
                   editingLayerId, editingCanvas>>

AssetResolve(i, ts) == AssetResolveWithin(MaxHistory, i, ts)

\* a step of the try block after the bounds check threw: App.tsx 374-379
AssetReject(i, cause) ==
    /\ i \in 1..Len(pending)
    /\ pending[i].kind = "asset" /\ pending[i].stage = "collab"
    /\ CanFail(pending[i], cause)
    /\ \E e \in Thrown("asset", cause) : error' = ErrorAfter(e, "Failed to generate image")
    /\ isGenerating' = FALSE
    /\ pending' = RemoveAt(pending, i)
    /\ lastOp' = "-"
    /\ UNCHANGED <<layers, history, historyIndex, selection, selectedLayerId, activeTool,
                   brushMask, viewState, now, mounted, eraserSize>>
    /\ UNCHANGED canvasVars

\* handleGenerateBase up to its await; basePrompt is the modal's text field
handleGenerateBase(basePromptText) ==
    /\ mounted
    /\ IF Len(trim(basePromptText)) = 0
       THEN /\ lastOp' = "-"
            /\ UNCHANGED <<isGenerating, error, pending>>
       ELSE /\ CanStart
            /\ isGenerating' = TRUE
            /\ error' = Null
            /\ pending' = Append(pending, Request("base", "collab", "tile", NoCell))
            /\ lastOp' = "-"
    /\ UNCHANGED <<layers, history, historyIndex, selection, selectedLayerId, activeTool,
                   brushMask, viewState, now, mounted, eraserSize>>
    /\ UNCHANGED canvasVars

\* the scene handleGenerateBase commits (App.tsx 395-415)
RegenLayers(r, ts) ==
    LET snapX == RoundDiv(r.view.x, CANVAS_WIDTH) * CANVAS_WIDTH
        snapY == RoundDiv(r.view.y, CANVAS_HEIGHT) * CANVAS_HEIGHT
        keep(l) == ~(l.type = "base" /\ NumNear(l.x, snapX, RegenEpsilon)
                                     /\ NumNear(l.y, snapY, RegenEpsilon))
        prevLayers == SeqFilter(r.layers, keep)
        baseLayer == MapLayer(RegenBaseId(snapX, snapY, ts), "base", "base",
                              snapX, snapY, CANVAS_WIDTH, CANVAS_HEIGHT, 0)
    IN <<baseLayer>> \o prevLayers

\* generateBaseTexture returned an image: App.tsx 395-417, 421
BaseResolve(i, ts) ==
    /\ i \in 1..Len(pending)
    /\ pending[i].kind = "base"
    /\ ts >= now /\ ts <= MaxClock
    /\ now' = ts
    /\ LET r == pending[i]
       IN Commit(r.history, r.historyIndex, RegenLayers(r, ts))
    /\ isGenerating' = FALSE
    /\ pending' = RemoveAt(pending, i)
    /\ lastOp' = "-"
    /\ UNCHANGED <<selection, selectedLayerId, activeTool, brushMask, error, viewState, mounted, eraserSize>>
    /\ UNCHANGED canvasVars

\* the service threw: App.tsx 418-422
BaseReject(i, cause) ==
    /\ i \in 1..Len(pending)
    /\ pending[i].kind = "base"
    /\ CanFail(pending[i], cause)
    /\ \E e \in Thrown("base", cause) : error' = ErrorAfter(e, "Failed to generate base")
    /\ isGenerating' = FALSE
    /\ pending' = RemoveAt(pending, i)
    /\ lastOp' = "-"
    /\ UNCHANGED <<layers, history, historyIndex, selection, selectedLayerId, activeTool,
                   brushMask, viewState, now, mounted, eraserSize>>
    /\ UNCHANGED canvasVars

(***************************************************************************)
(* Compositor (imageUtils.ts 59-159)                                       *)
(***************************************************************************)
\* the scenes handed to the compositor: overlapping layers, some sharing a
\* zIndex, one hidden
CompositeLayerPool ==
    {MapLayer(NavBaseId(0, 0), "base", "boot", 0, 0, CANVAS_WIDTH, CANVAS_HEIGHT, 0),
     MapLayer(ObjectId(0), "object", "asset", 384, 384, DefaultAssetSize, DefaultAssetSize,
              1 + ZIndexOffset),
     MapLayer(ObjectId(1), "object", "asset", 400, 400, DefaultAssetSize, DefaultAssetSize,
              1 + ZIndexOffset),
     [MapLayer(ObjectId(2), "object", "asset", 400, 400, DefaultAssetSize, DefaultAssetSize,
               2 + ZIndexOffset) EXCEPT !.visible = FALSE]}

\* every sequence of up to three different layers of the pool
CompositeScenes ==
    {s \in {<<>>} \cup {<<a>> : a \in CompositeLayerPool}
                 \cup {<<a, b>> : a, b \in CompositeLayerPool}
                 \cup {<<a, b, c>> : a, b, c \in CompositeLayerPool} :
        \A i, j \in 1..Len(s) : i # j => s[i] # s[j]}

\* what canvas.toDataURL() gives
CompositeUrl == "data:image/png"

\* a checkDone that resolves on every image event
checkDoneOnEach ==
    /\ compLoaded' = compLoaded + 1
    /\ compResolved' = compResolved + 1
    /\ callResult' = IF IsNull(callResult) THEN Some(CompositeUrl) ELSE callResult

\* checkDone: loadedCount++, and resolve when every image is accounted for
checkDone ==
    /\ compLoaded' = compLoaded + 1
    /\ compResolved' = IF compLoaded + 1 = Len(compLayers)
                       THEN compResolved + 1 ELSE compResolved
    /\ callResult' = IF compLoaded + 1 = Len(compLayers) /\ IsNull(callResult)
                     THEN Some(CompositeUrl) ELSE callResult

\* The model follows one composite at a time: a call keeps its canvas, its
\* images and its loadedCount in its own closure and shares none of them
\* with another call, so a new call is taken up when the images of the one
\* before have all fired their event.
NoImageLoading == \A i \in 1..Len(compLoads) : compLoads[i] # "loading"

\* the promise body up to its return: one Image per layer of `images`, its
\* src set; `early` is what resolve was called with before any image was
\* created, null when it was not called
StartImages(images, early) ==
    /\ NoImageLoading
    /\ compLayers' = images
    /\ compLoads' = [i \in 1..Len(images) |-> "loading"]
    /\ compBuffer' = <<>>
    /\ compLoaded' = 0
    /\ compResolved' = IF IsNull(early) THEN 0 ELSE 1
    /\ callResult' = early

\* getCompositeRect (imageUtils.ts 122-159): without a 2d context (ctx)
\* resolve(''), line 128; else sort, filter, and resolve at once when no
\* layer is visible (137), which an empty `layers` is a case of
getCompositeRect(ls, ctx) ==
    LET sorted == SortAsc(ls)
        isVisible(l) == l.visible
        visible == SeqFilter(sorted, isVisible)
    IN IF ~ctx THEN StartImages(<<>>, Some(""))
       ELSE IF Len(visible) = 0 THEN StartImages(<<>>, Some(CompositeUrl))
       ELSE StartImages(visible, Null)

\* compositeLayers (imageUtils.ts 59-115): filter first and resolve at once
\* when no layer is visible (63-70), before the canvas that is drawn on
\* exists; then without a 2d context resolve('') (92); else sort the
\* visible layers
compositeLayers(ls, ctx) ==
    LET isVisible(l) == l.visible
        visibleLayers == SeqFilter(ls, isVisible)
        sorted == SortAsc(visibleLayers)
    IN IF Len(visibleLayers) = 0 THEN StartImages(<<>>, Some(CompositeUrl))
       ELSE IF ~ctx THEN StartImages(<<>>, Some(""))
       ELSE StartImages(sorted, Null)

\* img.onload of the i-th visible layer: draw it over what is there
ImageLoaded(i) ==
    /\ i \in 1..Len(compLoads)
    /\ compLoads[i] = "loading"
    /\ compLoads' = [compLoads EXCEPT ![i] = "loaded"]
    /\ compBuffer' = Append(compBuffer, i)
    /\ checkDone
    /\ UNCHANGED compLayers

\* img.onerror of the i-th visible layer
ImageFailed(i) ==
    /\ i \in 1..Len(compLoads)
    /\ compLoads[i] = "loading"
    /\ compLoads' = [compLoads EXCEPT ![i] = "failed"]
    /\ checkDone
    /\ UNCHANGED <<compLayers, compBuffer>>

(***************************************************************************)
(* Tile stitcher (geminiService.ts 167-326, imageUtils.ts 203-220)         *)
(***************************************************************************)
\* `if (neighbors.left)`: an optional string is taken as present when it is
\* neither undefined nor empty
Truthy(v) == ~IsNull(v) /\ Val(v) # ""

\* a canvas as wide as the content, whatever its height
canvasSizeWidthOnly(contentW, contentH) == contentW

\* Math.max(contentW, contentH)
canvasSizeOf(contentW, contentH) == Max(contentW, contentH)

\* the input canvas of generateSeamlessTexture: its side, the place of the
\* target square and the strips drawn on it.  A strip is drawn at its
\* natural size, that of the rectangle handleNavigate composited it from
\* (App.tsx 183, 190, 197, 204).
SeamlessLayout(neighbors) ==
    LET left == Truthy(neighbors.left)
        right == Truthy(neighbors.right)
        top == Truthy(neighbors.top)
        bottom == Truthy(neighbors.bottom)
        contentW == TARGET_SIZE + (IF left THEN STRIP_SIZE ELSE 0)
                                + (IF right THEN STRIP_SIZE ELSE 0)
        contentH == TARGET_SIZE + (IF top THEN STRIP_SIZE ELSE 0)
                                + (IF bottom THEN STRIP_SIZE ELSE 0)
        targetX == IF left THEN STRIP_SIZE ELSE 0
        targetY == IF top THEN STRIP_SIZE ELSE 0
        canvasSize == canvasSizeOf(contentW, contentH)
    IN [contentW |-> contentW, contentH |-> contentH,
        targetX |-> targetX, targetY |-> targetY,
        width |-> canvasSize, height |-> canvasSize,
        strips |->
            (IF left THEN {[side |-> "left", x |-> 0, y |-> targetY,
                            width |-> STRIP_SIZE, height |-> CANVAS_HEIGHT]} ELSE {})
            \cup (IF right THEN {[side |-> "right", x |-> targetX + TARGET_SIZE, y |-> targetY,
                                  width |-> STRIP_SIZE, height |-> CANVAS_HEIGHT]} ELSE {})
            \cup (IF top THEN {[side |-> "top", x |-> targetX, y |-> 0,
                                width |-> CANVAS_WIDTH, height |-> STRIP_SIZE]} ELSE {})
            \cup (IF bottom THEN {[side |-> "bottom", x |-> targetX, y |-> targetY + TARGET_SIZE,
                                   width |-> CANVAS_WIDTH, height |-> STRIP_SIZE]} ELSE {})]

\* a scale that takes the canvas size for the output size and the reverse
SeamlessCropInverted(layout) ==
    LET scale == Frac(layout.width, outputSize)
    IN [x |-> FracTimes(layout.targetX, scale), y |-> FracTimes(layout.targetY, scale),
        width |-> FracTimes(TARGET_SIZE, scale), height |-> FracTimes(TARGET_SIZE, scale)]

\* cropX, cropY, cropW, cropH (geminiService.ts 311-317)
SeamlessCrop(layout) ==
    LET scale == Frac(outputSize, layout.width)
    IN [x |-> FracTimes(layout.targetX, scale), y |-> FracTimes(layout.targetY, scale),
        width |-> FracTimes(TARGET_SIZE, scale), height |-> FracTimes(TARGET_SIZE, scale)]

\* cropAndResize: a canvas of the target size, the source rectangle drawn
\* over all of it
cropAndResize(crop, targetW, targetH) ==
    [width |-> targetW, height |-> targetH, source |-> crop]

(***************************************************************************)
(* Chroma key (imageUtils.ts 8-53)                                         *)
(***************************************************************************)
\* a keyed pixel that loses half of its opacity
chromaKeyPixelHalving(px) ==
    LET dist == Abs(px.r - targetR) + Abs(px.g - targetG) + Abs(px.b - targetB)
    IN IF dist < threshold THEN [px EXCEPT !.a = px.a \div 2] ELSE px

\* one turn of the loop over imageData.data: the four bytes of a pixel
chromaKeyPixel(px) ==
    LET dist == Abs(px.r - targetR) + Abs(px.g - targetG) + Abs(px.b - targetB)
    IN IF dist < threshold THEN [px EXCEPT !.a = 0] ELSE px

\* the loop of removeMagentaBackground over an RGBA buffer
chromaKeyRemove(data) == [i \in 1..Len(data) |-> chromaKeyPixel(data[i])]

(***************************************************************************)
(* Difference extraction (imageUtils.ts 226-292)                           *)
(***************************************************************************)
\* a changed pixel that keeps the alpha the generator gave it
differencePixelKeepingAlpha(orig, gen) ==
    LET dist == Abs(orig.r - gen.r) + Abs(orig.g - gen.g) + Abs(orig.b - gen.b)
    IN IF dist < diffThreshold THEN [gen EXCEPT !.a = 0] ELSE gen

\* one turn of the compare loop: dataGen's pixel with its alpha rewritten
differencePixel(orig, gen) ==
    LET dist == Abs(orig.r - gen.r) + Abs(orig.g - gen.g) + Abs(orig.b - gen.b)
    IN IF dist < diffThreshold THEN [gen EXCEPT !.a = 0] ELSE [gen EXCEPT !.a = 255]

\* the compare loop of createDifferenceLayer over dataOrig and dataGen, both
\* of the generated image's size
differenceExtract(dataOrig, dataGen) ==
    [i \in 1..Len(dataGen) |-> differencePixel(dataOrig[i], dataGen[i])]

\* two layers that share a pixel
Overlap(a, b) ==
    /\ NumLess(a.x, NumPlus(b.x, b.width)) /\ NumLess(b.x, NumPlus(a.x, a.width))
    /\ NumLess(a.y, NumPlus(b.y, b.height)) /\ NumLess(b.y, NumPlus(a.y, a.height))

(***************************************************************************)
(* Specifications                                                          *)
(*                                                                         *)
(* The handlers above are shared; each specification below runs a group of *)
(* them, with the variables of the compositor and of the scripted round    *)
(* trip held still.                                                        *)
(***************************************************************************)
LayerIds == {layers[i].id : i \in 1..Len(layers)}
PendingIdx == 1..MaxPending + 1
Clock == 0..MaxClock + 1
Quiet == UNCHANGED <<compVars, rtVars, callVars, heap>>

\* the editor after mount and one isolated asset generation: a base layer,
\* an object layer on top of it, two history entries
EditedScene ==
    LET r == [mode |-> "isolated", view |-> Origin, layers |-> BootLayers]
    IN Append(BootLayers, AssetLayer(r, 0))

EditedEditor ==
    /\ layers = EditedScene
    /\ history = <<BootLayers, EditedScene>>
    /\ historyIndex = 1
    /\ selection = Null
    /\ selectedLayerId = Null
    /\ activeTool = "pointer"
    /\ brushMask = Null
    /\ isGenerating = FALSE
    /\ error = Null
    /\ viewState = [x |-> 0, y |-> 0]
    /\ pending = <<>>
    /\ now = 0
    /\ mounted = TRUE
    /\ eraserSize = EraserSize
    /\ interactionMode = "none"
    /\ startPos = Origin
    /\ mousePos = Origin
    /\ dragLayerStartPos = Origin
    /\ editingLayerId = Null
    /\ editingCanvas = FALSE
    /\ brushCanvas = {}
    /\ brushContext = TRUE
    /\ lastOp = "-"
    /\ InitComposite
    /\ InitScript

InitEdited == EditedEditor /\ InitCall

\* history: the synchronous commits, undo, redo, and one asynchronous commit
NextHistory ==
    \/ Bootstrap /\ Quiet
    \/ handleUndo /\ Quiet
    \/ handleRedo /\ Quiet
    \/ \E id \in LayerIds : handleToggleVisibility(id) /\ Quiet
    \/ \E t \in BlankTexts \cup {Grassland} : handleGenerateBase(t) /\ Quiet
    \/ \E i \in PendingIdx, ts \in Clock : BaseResolve(i, ts) /\ Quiet
    \/ \E i \in PendingIdx, c \in FailCauses : BaseReject(i, c) /\ Quiet

SpecHistory == Init /\ [][NextHistory]_vars

\* the three generation handlers and their outcomes; a base texture that
\* arrives is in SpecHistory and SpecIds
NextGenerate ==
    \/ Bootstrap /\ Quiet
    \/ handleDismissError /\ Quiet
    \/ \E built \in BOOLEAN : handleExportZip(built) /\ Quiet
    \/ \E d \in Directions : handleNavigate(d) /\ Quiet
    \/ \E i \in PendingIdx : NavigateResolve(i) /\ Quiet
    \/ \E i \in PendingIdx, c \in FailCauses : NavigateReject(i, c) /\ Quiet
    \/ \E t \in {ATree} : handleGenerateAsset(t) /\ Quiet
    \/ \E i \in PendingIdx, ts \in Clock : AssetResolve(i, ts) /\ Quiet
    \/ \E i \in PendingIdx, c \in FailCauses : AssetReject(i, c) /\ Quiet
    \/ \E t \in {Grassland} : handleGenerateBase(t) /\ Quiet
    \/ \E i \in PendingIdx, c \in FailCauses : BaseReject(i, c) /\ Quiet

SpecGenerate == Init /\ [][NextGenerate]_vars

\* the pointer on a scene that holds an object
NextDrag ==
    \/ handleUndo /\ Quiet
    \/ handleRedo /\ Quiet
    \/ \E tool \in {"pointer", "rectangle"} : handleToolChange(tool) /\ Quiet
    \/ \E q \in ScreenPts, cached \in BOOLEAN : handleMouseDown(q, cached) /\ Quiet
    \/ \E q \in ScreenPts : handleMouseMove(q) /\ Quiet
    \/ handleMouseUp /\ Quiet

SpecDrag == InitEdited /\ [][NextDrag]_vars

\* the tools, their transient state and the asset request that consumes it;
\* the collaborator answers these requests with a failure only (its images
\* are in SpecGenerate)
NextTools ==
    \/ Bootstrap /\ Quiet
    \/ \E tool \in {"rectangle", "brush"} : handleToolChange(tool) /\ Quiet
    \/ handleClearTransient /\ Quiet
    \/ \E q \in ScreenPts, cached \in BOOLEAN : handleMouseDown(q, cached) /\ Quiet
    \/ \E q \in ScreenPts : handleMouseMove(q) /\ Quiet
    \/ handleMouseUp /\ Quiet
    \/ \E t \in AssetPrompts : handleGenerateAsset(t) /\ Quiet
    \/ \E i \in PendingIdx, ctx \in BOOLEAN : AssetBounds(i, ctx) /\ Quiet
    \/ \E i \in PendingIdx, c \in FailCauses : AssetReject(i, c) /\ Quiet

SpecTools == Init /\ [][NextTools]_vars

\* the edited scene with any tool active and any layer selected, as the
\* toolbar and the layer panel leave them before the pointer enters the
\* canvas
InitPointer ==
    /\ layers = EditedScene
    /\ history = <<BootLayers, EditedScene>>
    /\ historyIndex = 1
    /\ selection = Null
    /\ selectedLayerId \in {Null} \cup {Some(EditedScene[i].id) : i \in 1..Len(EditedScene)}
    /\ activeTool \in Tools
    /\ brushMask = Null
    /\ isGenerating = FALSE
    /\ error = Null
    /\ viewState = [x |-> 0, y |-> 0]
    /\ pending = <<>>
    /\ now = 0
    /\ mounted = TRUE
    /\ eraserSize = EraserSize
    /\ interactionMode = "none"
    /\ startPos = Origin
    /\ mousePos = Origin
    /\ dragLayerStartPos = Origin
    /\ editingLayerId = Null
    /\ editingCanvas = FALSE
    /\ brushCanvas = {}
    /\ brushContext = TRUE
    /\ lastOp = "-"
    /\ InitComposite
    /\ InitScript
    /\ InitCall

\* a pointer event of the canvas
PointerEvent ==
    \/ \E q \in ScreenPts, cached \in BOOLEAN : handleMouseDown(q, cached)
    \/ \E q \in ScreenPts : handleMouseMove(q)
    \/ handleMouseUp

\* pointer events under each of the four tools, with switches between the
\* two tools that hit-test layers; the Size slider is moved while the brush
\* canvas is clear
NextPointer ==
    \/ \E tool \in {"pointer", "eraser"} : handleToolChange(tool) /\ Quiet
    \/ \E size \in BrushSizes : setEraserSize(size) /\ brushCanvas = {} /\ Quiet
    \/ \E q \in ScreenPts, cached \in BOOLEAN : handleMouseDown(q, cached) /\ Quiet
    \/ \E q \in ScreenPts : handleMouseMove(q) /\ Quiet
    \/ handleMouseUp /\ Quiet

SpecPointer == InitPointer /\ [][NextPointer]_vars

\* the handlers that add or remove layers, with undo and redo
NextIds ==
    \/ Bootstrap /\ Quiet
    \/ handleUndo /\ Quiet
    \/ handleRedo /\ Quiet
    \/ \E id \in LayerIds : handleDeleteLayer(id) /\ Quiet
    \/ \E d \in Directions : handleNavigate(d) /\ Quiet
    \/ \E i \in PendingIdx : NavigateResolve(i) /\ Quiet
    \/ \E t \in {ATree} : handleGenerateAsset(t) /\ Quiet
    \/ \E i \in PendingIdx, ts \in Clock : AssetResolve(i, ts) /\ Quiet
    \/ \E t \in {Grassland} : handleGenerateBase(t) /\ Quiet
    \/ \E i \in PendingIdx, ts \in Clock : BaseResolve(i, ts) /\ Quiet

SpecIds == Init /\ [][NextIds]_vars

\* the keydown listener the mount effect puts on the window (App.tsx 91-100):
\* an arrow key pans the view by PanStep, by PanStepShift with the shift key
\* down; nothing when the focus is in an input or a textarea
handleKeyDown(key, shiftKey, inField) ==
    LET step == IF shiftKey THEN PanStepShift ELSE PanStep
        dx == IF key = "ArrowRight" THEN step ELSE IF key = "ArrowLeft" THEN -step ELSE 0
        dy == IF key = "ArrowDown" THEN step ELSE IF key = "ArrowUp" THEN -step ELSE 0
    IN
    /\ mounted
    /\ viewState' = IF inField THEN viewState
                    ELSE [x |-> viewState.x + dx, y |-> viewState.y + dy]
    /\ Abs(viewState'.x) <= MaxCell * CANVAS_WIDTH
    /\ Abs(viewState'.y) <= MaxCell * CANVAS_HEIGHT
    /\ lastOp' = "-"
    /\ UNCHANGED <<layers, history, historyIndex, selection, selectedLayerId, activeTool,
                   brushMask, isGenerating, error, pending, now, mounted, eraserSize>>
    /\ UNCHANGED canvasVars

\* the keys pressed: the four arrows and a key the listener ignores
Keys == {"ArrowUp", "ArrowDown", "ArrowLeft", "ArrowRight", "a"}

\* handleWheel (App.tsx 105-111): nothing with the control key down, else
\* the view pans by the wheel deltas
handleWheel(deltaX, deltaY, ctrlKey) ==
    /\ mounted
    /\ viewState' = IF ctrlKey THEN viewState
                    ELSE [x |-> viewState.x + deltaX, y |-> viewState.y + deltaY]
    /\ Abs(viewState'.x) <= MaxCell * CANVAS_WIDTH
    /\ Abs(viewState'.y) <= MaxCell * CANVAS_HEIGHT
    /\ lastOp' = "-"
    /\ UNCHANGED <<layers, history, historyIndex, selection, selectedLayerId, activeTool,
                   brushMask, isGenerating, error, pending, now, mounted, eraserSize>>
    /\ UNCHANGED canvasVars

\* wheel deltas: half a tile to the right, so that the camera comes back to
\* a cell on the left by navigation only
WheelDeltas == {512}

\* base tiles: neighbor navigation, base regeneration, delete, undo, redo,
\* with the view panned off the grid in between.  The navigation arrows and
\* the base generation are used only when no request is pending (the loader
\* overlay of App.tsx 859 covers them while isGenerating); the other
\* handlers run at any time, also between a request and its commit.
NextCells ==
    \/ Bootstrap /\ Quiet
    \/ handleUndo /\ Quiet
    \/ handleRedo /\ Quiet
    \/ \E dx \in WheelDeltas, ctrlKey \in BOOLEAN : handleWheel(dx, 0, ctrlKey) /\ Quiet
    \/ \E id \in LayerIds : handleDeleteLayer(id) /\ Quiet
    \/ \E d \in Directions :
          handleNavigate(d) /\ pending = <<>> /\ Quiet
    \/ \E i \in PendingIdx : NavigateResolve(i) /\ Quiet
    \/ \E t \in {Grassland} :
          handleGenerateBase(t) /\ pending = <<>> /\ Quiet
    \/ \E i \in PendingIdx, ts \in Clock : BaseResolve(i, ts) /\ Quiet

SpecCells == Init /\ [][NextCells]_vars

\* the bound on history growth where an asset is generated after a delete
MaxDepth == 4

\* asset generations, deletes, undos and redos; the asset commit may make
\* the fourth history entry
NextZOrder ==
    \/ Bootstrap /\ Quiet
    \/ handleUndo /\ Quiet
    \/ handleRedo /\ Quiet
    \/ \E id \in LayerIds : handleDeleteLayer(id) /\ Quiet
    \/ \E t \in {ATree} : handleGenerateAsset(t) /\ Quiet
    \/ \E i \in PendingIdx, ts \in Clock : AssetResolveWithin(MaxDepth, i, ts) /\ Quiet

SpecZOrder == Init /\ [][NextZOrder]_vars

\* the mounted editor showing the bootstrap scene
BootEditor ==
    /\ layers = BootLayers
    /\ history = <<BootLayers>>
    /\ historyIndex = 0
    /\ selection = Null
    /\ selectedLayerId = Null
    /\ activeTool = "pointer"
    /\ brushMask = Null
    /\ error = Null
    /\ now = 0
    /\ mounted = TRUE
    /\ eraserSize = EraserSize
    /\ interactionMode = "none"
    /\ startPos = Origin
    /\ mousePos = Origin
    /\ dragLayerStartPos = Origin
    /\ editingLayerId = Null
    /\ editingCanvas = FALSE
    /\ brushCanvas = {}
    /\ brushContext = TRUE
    /\ lastOp = "-"
    /\ InitComposite
    /\ InitScript
    /\ InitCall

\* the requests a handler can leave pending when it is called on the
\* bootstrap scene with the view at `view`: an isolated asset, a regenerated
\* base tile, or the tile of a neighbor cell that holds no base layer yet
BootRequests(view) ==
    LET req(kind, mode, cell) ==
            [kind |-> kind, stage |-> "collab", mode |-> mode, cell |-> cell,
             layers |-> BootLayers, history |-> <<BootLayers>>, historyIndex |-> 0,
             view |-> view, selection |-> Null, brushMask |-> Null]
    IN {req("asset", "isolated", NoCell), req("base", "tile", NoCell)}
       \cup {req("seamless", "tile", NextCell(view, d)) :
                d \in {e \in Directions :
                          ~BaseExistsAt(BootLayers, NextCell(view, e).gx * CANVAS_WIDTH,
                                        NextCell(view, e).gy * CANVAS_HEIGHT)}}

\* the view a handler leaves behind: handleNavigate moves it to the new cell
ViewAfter(r) ==
    IF r.kind = "seamless"
    THEN [x |-> r.cell.gx * CANVAS_WIDTH, y |-> r.cell.gy * CANVAS_HEIGHT]
    ELSE r.view

\* two generation handlers were called one after the other on the bootstrap
\* scene and both requests are with the collaborator
InitConcurrent ==
    /\ BootEditor
    /\ isGenerating = TRUE
    /\ \E r1 \in BootRequests(Origin) :
          \E r2 \in BootRequests(ViewAfter(r1)) :
             /\ pending = <<r1, r2>>
             /\ viewState = ViewAfter(r2)

\* the two requests settle, in either order, each with an image or an error,
\* while the view is panned with the keyboard
NextConcurrent ==
    \/ \E key \in Keys, inField \in BOOLEAN : handleKeyDown(key, TRUE, inField) /\ Quiet
    \/ \E i \in 1..2 : NavigateResolve(i) /\ Quiet
    \/ \E i \in 1..2, c \in FailCauses : NavigateReject(i, c) /\ Quiet
    \/ \E i \in 1..2, ts \in Clock : AssetResolve(i, ts) /\ Quiet
    \/ \E i \in 1..2, c \in FailCauses : AssetReject(i, c) /\ Quiet
    \/ \E i \in 1..2, ts \in Clock : BaseResolve(i, ts) /\ Quiet
    \/ \E i \in 1..2, c \in FailCauses : BaseReject(i, c) /\ Quiet

SpecConcurrent == InitConcurrent /\ [][NextConcurrent]_vars

\* the strip images of a pending neighbor request settle (geminiService.ts
\* 215-246).  loadAndDraw resolves from img.onload and sets no onerror: when
\* every strip loads, Promise.all resolves and the canvas goes to the
\* generator; when one fails to load its promise stays pending for ever and
\* so do Promise.all, generateSeamlessTexture and handleNavigate.  With no
\* strip Promise.all([]) resolves at once.
StripsSettle(i, loaded) ==
    /\ i \in 1..Len(pending)
    /\ pending[i].kind = "seamless" /\ pending[i].stage = "collab"
    /\ LET r == pending[i]
           n == neighborsOf(r.layers, r.cell.gx * CANVAS_WIDTH, r.cell.gy * CANVAS_HEIGHT)
       IN /\ (\A d \in Directions : ~n[d]) => loaded
          /\ pending' = [pending EXCEPT ![i].stage = IF loaded THEN "sent" ELSE "stuck"]
    /\ lastOp' = "-"
    /\ UNCHANGED <<layers, history, historyIndex, selection, selectedLayerId, activeTool,
                   brushMask, isGenerating, error, viewState, now, mounted, eraserSize>>
    /\ UNCHANGED canvasVars

\* an image load of a pending request completes or fails
ImageSettles ==
    \E i \in PendingIdx, loaded \in BOOLEAN : StripsSettle(i, loaded) /\ Quiet

\* the collaborator answers a request that has reached it, with an image
\* or with an error
CollaboratorAnswers ==
    \/ \E i \in PendingIdx :
          i <= Len(pending) /\ pending[i].stage = "sent" /\ NavigateResolve(i) /\ Quiet
    \/ \E i \in PendingIdx, c \in FailCauses :
          i <= Len(pending) /\ pending[i].stage = "sent" /\ NavigateReject(i, c) /\ Quiet
    \/ \E i \in PendingIdx, ts \in Clock : AssetResolve(i, ts) /\ Quiet
    \/ \E i \in PendingIdx, c \in FailCauses : AssetReject(i, c) /\ Quiet

\* neighbor and asset requests from start to settlement
NextSettle ==
    \/ Bootstrap /\ Quiet
    \/ handleUndo /\ Quiet
    \/ handleDismissError /\ Quiet
    \/ \E d \in Directions : handleNavigate(d) /\ Quiet
    \/ \E t \in {ATree} : handleGenerateAsset(t) /\ Quiet
    \/ ImageSettles
    \/ CollaboratorAnswers

\* the event loop delivers every load event and every answer
SpecSettle ==
    /\ Init
    /\ [][NextSettle]_vars
    /\ WF_vars(ImageSettles)
    /\ WF_vars(CollaboratorAnswers)

\* distances of a layer from the place a neighbor is expected at
NeighborOffsets == {-150, -100, -99, -40, 0, 40, 99, 100, 150}

\* the arguments of one neighbor detection: the target tile, and a scene of
\* the bootstrap tile and one more layer of either kind, lying off the place
\* expected in one direction by (dx, dy)
NeighborCalls ==
    [kind : {"base", "object"}, direction : Directions,
     dx : NeighborOffsets, dy : NeighborOffsets,
     targetX : {0, CANVAS_WIDTH}, targetY : {0}]

NeighborScene(a) ==
    LET e == ExpectedNeighbor(a.direction, a.targetX, a.targetY)
    IN Append(BootLayers,
              MapLayer(ObjectId(0), a.kind, "asset", e.x + a.dx, e.y + a.dy,
                       CANVAS_WIDTH, CANVAS_HEIGHT, 0))

InitNeighbors ==
    /\ InitEditor
    /\ callArgs \in {Some(a) : a \in NeighborCalls}
    /\ callResult = Null
    /\ heap = Null

DetectNeighbors ==
    /\ IsNull(callResult)
    /\ LET a == Val(callArgs)
       IN callResult' = Some(neighborsOf(NeighborScene(a), a.targetX, a.targetY))
    /\ UNCHANGED <<appVars, canvasVars, lastOp, compVars, rtVars, callArgs, heap>>

SpecNeighbors == InitNeighbors /\ [][DetectNeighbors]_vars

\* an optional neighbor strip: undefined, the empty string getCompositeRect
\* resolves with when it has no 2d context, or an image
StripArgs == {Null, Some(""), Some("strip")}
\* side of the square image the generator answers with
OutputSides == {512, 1024, 2048}

InitStitch ==
    /\ InitEditor
    /\ callArgs \in {Some([neighbors |-> n, outputSide |-> o]) :
                          n \in [left : StripArgs, right : StripArgs,
                                 top : StripArgs, bottom : StripArgs],
                          o \in OutputSides}
    /\ callResult = Null
    /\ heap = Null

\* the orders in which the strip images can finish loading
LoadOrders(strips) ==
    {o \in [1..Cardinality(strips) -> strips] :
        \A i, j \in 1..Cardinality(strips) : i # j => o[i] # o[j]}

\* the calls made on the 2d context while the input canvas is painted
\* (geminiService.ts 211-258): the background fill, one drawImage per strip
\* as its image loads, the marker fill; the second await Promise.all waits
\* on the promises of the first and calls nothing
PaintCanvas(layout, order) ==
    <<[op |-> "fillRect", color |-> "#222222", x |-> 0, y |-> 0,
       width |-> layout.width, height |-> layout.height]>>
    \o [i \in 1..Len(order) |->
           [op |-> "drawImage", color |-> order[i].side, x |-> order[i].x,
            y |-> order[i].y, width |-> order[i].width, height |-> order[i].height]]
    \o <<[op |-> "fillRect", color |-> "#FF00FF", x |-> layout.targetX,
          y |-> layout.targetY, width |-> TARGET_SIZE, height |-> TARGET_SIZE]>>

\* what the pixel (px, py) holds after the calls: the colour, or the strip,
\* of the last call that covers it
ColorAt(draws, px, py) ==
    LET covers(d) == /\ d.x <= px /\ px < d.x + d.width
                     /\ d.y <= py /\ py < d.y + d.height
        last == CHOOSE i \in 1..Len(draws) :
                   /\ covers(draws[i])
                   /\ \A j \in (i + 1)..Len(draws) : ~covers(draws[j])
    IN draws[last].color

\* generateSeamlessTexture up to the call of the generator
ComposeInput ==
    /\ IsNull(callResult)
    /\ \E order \in LoadOrders(SeamlessLayout(Val(callArgs).neighbors).strips) :
          callResult' = Some([stage |-> "sent",
                              layout |-> SeamlessLayout(Val(callArgs).neighbors),
                              draws |-> PaintCanvas(SeamlessLayout(Val(callArgs).neighbors),
                                                    order)])
    /\ UNCHANGED <<appVars, canvasVars, lastOp, compVars, rtVars, callArgs, heap>>

\* the generator answered with an image: crop it and scale it back
CropResult ==
    /\ ~IsNull(callResult)
    /\ Val(callResult).stage = "sent"
    /\ LET layout == Val(callResult).layout
           crop == SeamlessCrop(layout)
       IN callResult' = Some([stage |-> "cropped", layout |-> layout,
                              draws |-> Val(callResult).draws, crop |-> crop,
                              tile |-> cropAndResize(crop, TARGET_SIZE, TARGET_SIZE)])
    /\ UNCHANGED <<appVars, canvasVars, lastOp, compVars, rtVars, callArgs, heap>>

NextStitch == ComposeInput \/ CropResult

SpecStitch == InitStitch /\ [][NextStitch]_vars

\* pixels around the key and around the threshold, opaque, translucent and
\* transparent
KeyPixels == [r : {0, 156, 255}, g : {0, 99, 100}, b : {155, 255}, a : {0, 128, 255}]
\* RGBA buffers of one and of two pixels
KeyBuffers == {<<p>> : p \in KeyPixels} \cup {<<p, q>> : p, q \in KeyPixels}

InitChromaKey ==
    /\ InitEditor
    /\ callArgs \in {Some(data) : data \in KeyBuffers}
    /\ callResult = Null
    /\ heap = Null

\* chromaKeyRemove applied to the buffer, then to its own result; callResult
\* holds the results so far
ApplyChromaKey ==
    /\ IF IsNull(callResult)
       THEN callResult' = Some(<<chromaKeyRemove(Val(callArgs))>>)
       ELSE /\ Len(Val(callResult)) = 1
            /\ callResult' = Some(Append(Val(callResult),
                                         chromaKeyRemove(Val(callResult)[1])))
    /\ UNCHANGED <<appVars, canvasVars, lastOp, compVars, rtVars, callArgs, heap>>

SpecChromaKey == InitChromaKey /\ [][ApplyChromaKey]_vars

\* pixels whose distances straddle the threshold of the comparison
DiffPixels == [r : {0, 20, 34, 35, 255}, g : {0, 15}, b : {0}, a : {0, 128, 255}]
\* pairs of buffers of the same size: one pixel each, or two
DiffCalls ==
    {[orig |-> <<p>>, gen |-> <<q>>] : p, q \in DiffPixels}
    \cup {[orig |-> <<p, q>>, gen |-> <<u, v>>] :
             p, u \in [r : {0, 34}, g : {0}, b : {0}, a : {255}],
             q, v \in [r : {20, 255}, g : {15}, b : {0}, a : {0, 128}]}

InitDifference ==
    /\ InitEditor
    /\ callArgs \in {Some(c) : c \in DiffCalls}
    /\ callResult = Null
    /\ heap = Null

ExtractDifference ==
    /\ IsNull(callResult)
    /\ callResult' = Some(differenceExtract(Val(callArgs).orig, Val(callArgs).gen))
    /\ UNCHANGED <<appVars, canvasVars, lastOp, compVars, rtVars, callArgs, heap>>

SpecDifference == InitDifference /\ [][ExtractDifference]_vars

(***************************************************************************)
(* The scene store as objects and references (App.tsx 113-137, 355-369,    *)
(* 425-449).  A scene is an array of references to layer objects; history  *)
(* is a list of references to scene arrays.  filter, map and spread        *)
(* allocate; nothing else does.                                            *)
(***************************************************************************)
\* the bound on scene arrays allocated in one run
MaxArrays == 4

\* the scene an array reference stands for
HeapScene(h, ref) == [i \in 1..Len(h.arrays[ref]) |-> h.objs[h.arrays[ref][i]]]

\* the history as scenes
HeapHistory(h) == [k \in 1..Len(h.history) |-> HeapScene(h, h.history[k])]

\* how many of the first i elements of array ref carry the id
MatchRank(h, ref, id, i) ==
    Cardinality({j \in 1..i : h.objs[h.arrays[ref][j]].id = id})

\* a map that writes the changed fields into the layer object it found and
\* returns an array of the same references
MapInPlace(h, ref, id, newOf) ==
    [h EXCEPT !.objs = [o \in 1..Len(h.objs) |->
                            IF h.objs[o].id = id /\ (\E i \in 1..Len(h.arrays[ref]) :
                                                        h.arrays[ref][i] = o)
                            THEN newOf[o] ELSE h.objs[o]],
              !.arrays = Append(h.arrays, h.arrays[ref])]

\* layers.map(l => l.id === id ? { ...l, <changes> } : l): a new array, a new
\* object for every element that carries the id, the other references shared;
\* newOf[o] is the object literal built from object o
MapCopy(h, ref, id, newOf) ==
    LET arr == h.arrays[ref]
        hits == {i \in 1..Len(arr) : h.objs[arr[i]].id = id}
        fresh == [k \in 1..Cardinality(hits) |->
                     newOf[arr[CHOOSE i \in hits : MatchRank(h, ref, id, i) = k]]]
        mapped == [i \in 1..Len(arr) |->
                     IF i \in hits THEN Len(h.objs) + MatchRank(h, ref, id, i)
                     ELSE arr[i]]
    IN [h EXCEPT !.objs = h.objs \o fresh, !.arrays = Append(h.arrays, mapped)]

\* layers.filter(l => l.id !== id): a new array of the kept references
FilterCopy(h, ref, id) ==
    LET keep(o) == h.objs[o].id # id
    IN [h EXCEPT !.arrays = Append(h.arrays, SeqFilter(h.arrays[ref], keep))]

\* [...layers, newLayer]: a new object and a new array
SpreadCopy(h, ref, newLayer) ==
    [h EXCEPT !.objs = Append(h.objs, newLayer),
              !.arrays = Append(h.arrays, Append(h.arrays[ref], Len(h.objs) + 1))]

\* the array the last allocation made
NewestArray(h) == Len(h.arrays)

\* addToHistory on references, by a closure that sees (hist, idx)
HeapCommit(h, hist, idx, ref) ==
    LET c == addToHistory(hist, idx, ref)
    IN [h EXCEPT !.history = c.history, !.historyIndex = c.historyIndex,
                 !.layers = c.layers]

\* the store moves to h2; layers, history and historyIndex are what its
\* references stand for.  What a handler does to the selection, the tool
\* and the request state is said in its own action.
HeapStep(h2, op) ==
    /\ heap' = Some(h2)
    /\ layers' = HeapScene(h2, h2.layers)
    /\ history' = HeapHistory(h2)
    /\ historyIndex' = h2.historyIndex
    /\ lastOp' = op
    /\ UNCHANGED <<brushMask, viewState, pending, now, mounted, eraserSize>>
    /\ UNCHANGED <<canvasVars, compVars, rtVars, callVars>>

CanAllocate(h) == Len(h.arrays) < MaxArrays

\* handleDeleteLayer (App.tsx 425-429)
HeapDeleteLayer(id) ==
    LET h == Val(heap)
        f == FilterCopy(h, h.layers, id)
    IN /\ CanAllocate(h) /\ CanCommit(h.historyIndex)
       /\ HeapStep(HeapCommit(f, h.history, h.historyIndex, NewestArray(f)), "commit")
       /\ selectedLayerId' = IF selectedLayerId = Some(id) THEN Null ELSE selectedLayerId
       /\ UNCHANGED <<selection, activeTool, isGenerating, error>>

\* handleToggleVisibility (App.tsx 431-434)
HeapToggleVisibility(id) ==
    LET h == Val(heap)
        newOf == [o \in 1..Len(h.objs) |-> [h.objs[o] EXCEPT !.visible = ~h.objs[o].visible]]
        m == MapCopy(h, h.layers, id, newOf)
    IN /\ CanAllocate(h) /\ CanCommit(h.historyIndex)
       /\ HeapStep(HeapCommit(m, h.history, h.historyIndex, NewestArray(m)), "commit")
       /\ UNCHANGED <<selection, selectedLayerId, activeTool, isGenerating, error>>

\* updateLayerPosition (App.tsx 438-440): setLayers only
HeapSetPosition(id, x, y) ==
    LET h == Val(heap)
        newOf == [o \in 1..Len(h.objs) |-> [h.objs[o] EXCEPT !.x = x, !.y = y]]
        m == MapCopy(h, h.layers, id, newOf)
    IN /\ CanAllocate(h)
       /\ HeapStep([m EXCEPT !.layers = NewestArray(m)], "-")
       /\ UNCHANGED <<selection, selectedLayerId, activeTool, isGenerating, error>>

\* handleMoveEnd (App.tsx 442-444): addToHistory(layers), the current array
HeapMoveEnd ==
    LET h == Val(heap)
    IN /\ CanCommit(h.historyIndex)
       /\ HeapStep(HeapCommit(h, h.history, h.historyIndex, h.layers), "commit")
       /\ UNCHANGED <<selection, selectedLayerId, activeTool, isGenerating, error>>

\* updateLayerData (App.tsx 446-449)
HeapSetData(id, imageData) ==
    LET h == Val(heap)
        newOf == [o \in 1..Len(h.objs) |-> [h.objs[o] EXCEPT !.imageData = imageData]]
        m == MapCopy(h, h.layers, id, newOf)
    IN /\ CanAllocate(h) /\ CanCommit(h.historyIndex)
       /\ HeapStep(HeapCommit(m, h.history, h.historyIndex, NewestArray(m)), "commit")
       /\ UNCHANGED <<selection, selectedLayerId, activeTool, isGenerating, error>>

\* handleGenerateAsset with a prompt that is not blank, up to its await on
\* the isolated path (App.tsx 246-256, 349-351): setIsGenerating(true),
\* setError(null); the closure holds the array, the history and the cursor
\* of the render it was created in
HeapAddStart ==
    LET h == Val(heap)
    IN /\ IsNull(h.captured)
       /\ Len(h.arrays[h.layers]) < MaxLayers
       /\ AssetMode(brushMask, activeTool, selection) = "isolated"
       /\ HeapStep([h EXCEPT !.captured = Some([layers |-> h.layers,
                                                history |-> h.history,
                                                historyIndex |-> h.historyIndex,
                                                view |-> viewState])],
                   "-")
       /\ isGenerating' = TRUE
       /\ error' = Null
       /\ UNCHANGED <<selection, selectedLayerId, activeTool>>

\* the rest of handleGenerateAsset on the isolated path, the image being
\* there (App.tsx 352-373, 378): the add-layer commit, setSelection(null),
\* setActiveTool('pointer'), and setIsGenerating(false) in the finally block
HeapAddLayer ==
    LET h == Val(heap)
        c == Val(h.captured)
        r == [mode |-> "isolated", view |-> c.view, layers |-> HeapScene(h, c.layers)]
        a == SpreadCopy(h, c.layers, AssetLayer(r, 0))
    IN /\ ~IsNull(h.captured)
       /\ CanAllocate(h) /\ CanCommit(c.historyIndex)
       /\ HeapStep([HeapCommit(a, c.history, c.historyIndex, NewestArray(a))
                        EXCEPT !.captured = Null], "commit")
       /\ selection' = Null
       /\ activeTool' = "pointer"
       /\ isGenerating' = FALSE
       /\ UNCHANGED <<selectedLayerId, error>>

\* handleUndo (App.tsx 121-128): setLayers(history[newIndex]), a reference,
\* and setSelection(null); nothing at the oldest entry
HeapUndo ==
    LET h == Val(heap)
    IN /\ IF h.historyIndex > 0
          THEN /\ HeapStep([h EXCEPT !.historyIndex = h.historyIndex - 1,
                                     !.layers = h.history[h.historyIndex - 1 + 1]], "-")
               /\ selection' = Null
          ELSE /\ HeapStep(h, "-")
               /\ UNCHANGED selection
       /\ UNCHANGED <<selectedLayerId, activeTool, isGenerating, error>>

\* handleRedo (App.tsx 130-137); nothing at the newest entry
HeapRedo ==
    LET h == Val(heap)
    IN /\ IF h.historyIndex < Len(h.history) - 1
          THEN /\ HeapStep([h EXCEPT !.historyIndex = h.historyIndex + 1,
                                     !.layers = h.history[h.historyIndex + 1 + 1]], "-")
               /\ selection' = Null
          ELSE /\ HeapStep(h, "-")
               /\ UNCHANGED selection
       /\ UNCHANGED <<selectedLayerId, activeTool, isGenerating, error>>

\* the store of the edited scene: the boot array, and the array the asset
\* commit spread from it
EditedHeap ==
    [objs |-> EditedScene, arrays |-> << <<1>>, <<1, 2>> >>, layers |-> 2,
     history |-> <<1, 2>>, historyIndex |-> 1, captured |-> Null]

\* the edited scene with the object layer selected in the layer panel and
\* the rectangle tool in hand
InitHeap ==
    /\ layers = EditedScene
    /\ history = <<BootLayers, EditedScene>>
    /\ historyIndex = 1
    /\ selection = Null
    /\ selectedLayerId = Some(EditedScene[2].id)
    /\ activeTool = "rectangle"
    /\ brushMask = Null
    /\ isGenerating = FALSE
    /\ error = Null
    /\ viewState = [x |-> 0, y |-> 0]
    /\ pending = <<>>
    /\ now = 0
    /\ mounted = TRUE
    /\ eraserSize = EraserSize
    /\ interactionMode = "none"
    /\ startPos = Origin
    /\ mousePos = Origin
    /\ dragLayerStartPos = Origin
    /\ editingLayerId = Null
    /\ editingCanvas = FALSE
    /\ brushCanvas = {}
    /\ brushContext = TRUE
    /\ lastOp = "-"
    /\ InitComposite
    /\ InitScript
    /\ callArgs = Null
    /\ callResult = Null
    /\ heap = Some(EditedHeap)

HeapPositions == {[x |-> 400, y |-> 416]}

NextHeap ==
    \/ \E id \in LayerIds : HeapDeleteLayer(id)
    \/ \E id \in LayerIds : HeapToggleVisibility(id)
    \/ \E i \in 1..Len(layers), p \in HeapPositions :
           layers[i].type # "base" /\ HeapSetPosition(layers[i].id, p.x, p.y)
    \/ HeapMoveEnd
    \/ \E i \in 1..Len(layers) :
           layers[i].type # "base" /\ HeapSetData(layers[i].id, "erased")
    \/ HeapAddStart
    \/ HeapAddLayer
    \/ HeapUndo
    \/ HeapRedo

SpecHeap == InitHeap /\ [][NextHeap]_vars

\* calls of getCompositeRect and compositeLayers and the load events of
\* their images
NextComposite ==
    \/ \E ls \in CompositeScenes, ctx \in BOOLEAN :
           getCompositeRect(ls, ctx) /\ UNCHANGED <<appVars, canvasVars, lastOp, rtVars, callArgs, heap>>
    \/ \E ls \in CompositeScenes, ctx \in BOOLEAN :
           compositeLayers(ls, ctx) /\ UNCHANGED <<appVars, canvasVars, lastOp, rtVars, callArgs, heap>>
    \/ \E i \in 1..3 : ImageLoaded(i) /\ UNCHANGED <<appVars, canvasVars, lastOp, rtVars, callArgs, heap>>
    \/ \E i \in 1..3 : ImageFailed(i) /\ UNCHANGED <<appVars, canvasVars, lastOp, rtVars, callArgs, heap>>

SpecComposite == Init /\ [][NextComposite]_vars

\* the scenes the script commits
ScriptScenes ==
    LET hide(l) == [l EXCEPT !.visible = FALSE]
    IN {<<>>, BootLayers, EditedScene, SeqMap(EditedScene, hide), <<EditedScene[2]>>}

\* commit(scene) of the scripted round trip: addToHistory(scene), as a
\* handler of the current render calls it
ScriptCommit(scene) ==
    /\ rtStep \in {0, 1}
    /\ mounted
    /\ LET r == addToHistory(history, historyIndex, scene)
       IN /\ history' = r.history
          /\ historyIndex' = r.historyIndex
          /\ layers' = r.layers
    /\ rtStep' = rtStep + 1
    /\ rtSceneA' = IF rtStep = 0 THEN scene ELSE rtSceneA
    /\ UNCHANGED <<selection, selectedLayerId, activeTool, brushMask, isGenerating,
                   error, viewState, pending, now, mounted, eraserSize>>
    /\ UNCHANGED <<canvasVars, lastOp, compVars, callVars, heap>>

ScriptUndo ==
    /\ rtStep \in {2, 3}
    /\ handleUndo
    /\ rtStep' = rtStep + 1
    /\ UNCHANGED <<rtSceneA, compVars, callVars, heap>>

ScriptRedo ==
    /\ rtStep = 4
    /\ handleRedo
    /\ rtStep' = rtStep + 1
    /\ UNCHANGED <<rtSceneA, compVars, callVars, heap>>

\* any history the synchronous handlers can build on the edited scene, then
\* the script commit(sceneA); commit(sceneB); undo(); undo(); redo()
NextRoundTrip ==
    \/ rtStep = 0 /\ handleUndo /\ Quiet
    \/ rtStep = 0 /\ handleRedo /\ Quiet
    \/ rtStep = 0 /\ (\E id \in LayerIds : handleToggleVisibility(id)) /\ Quiet
    \/ rtStep = 0 /\ (\E id \in LayerIds : handleDeleteLayer(id)) /\ Quiet
    \/ \E scene \in ScriptScenes : ScriptCommit(scene)
    \/ ScriptUndo
    \/ ScriptRedo

SpecRoundTrip == InitEdited /\ [][NextRoundTrip]_vars

(***************************************************************************)
(* History properties                                                      *)
(***************************************************************************)
\* C1: in every reachable state the history cursor is at least -1 and at
\* most the index of the last history entry.
CursorInRange == -1 <= historyIndex /\ historyIndex <= Len(history) - 1

\* commits have grown the history to three entries and undo has walked the
\* cursor back to the first
CursorWalkedBack == Len(history) >= 3 /\ historyIndex = 0

\* C2: a step that commits, taken with the cursor at c, leaves the history
\* equal to the entries 0..c of the history before the step followed by the
\* new current scene, and the cursor at c + 1.
CommitTruncatesAtCursor ==
    [][history' # history =>
         /\ history' = Append(SubSeq(history, 1, historyIndex + 1), layers')
         /\ historyIndex' = historyIndex + 1]_vars

\* C4: undo with the cursor at the oldest entry and redo with the cursor at
\* the newest entry change neither the history, the cursor, the current
\* scene nor the error message.
OutOfRangeUndoRedoSilent ==
    [][(\/ handleUndo /\ historyIndex <= 0
        \/ handleRedo /\ historyIndex >= Len(history) - 1)
       => UNCHANGED <<history, historyIndex, layers, error>>]_vars

\* undo has just been asked for at the oldest of several entries
UndoAskedAtOldest == lastOp = "undo_noop" /\ historyIndex = 0 /\ Len(history) >= 2

(***************************************************************************)
(* Generation failure                                                      *)
(***************************************************************************)
\* a step of a generation request that fails: the handler up to its first
\* await, or its catch block
FailingRequestStep ==
    \/ \E d \in Directions : handleNavigate(d)
    \/ \E t \in BlankTexts \cup {ATree} : handleGenerateAsset(t)
    \/ \E t \in BlankTexts \cup {Grassland} : handleGenerateBase(t)
    \/ \E i \in PendingIdx, c \in FailCauses : NavigateReject(i, c)
    \/ \E i \in PendingIdx, c \in FailCauses : AssetReject(i, c)
    \/ \E i \in PendingIdx, c \in FailCauses : BaseReject(i, c)

\* C6: a generation request that fails, whether the collaborator throws or
\* returns no image, adds no layer: none of its steps changes the scene, the
\* history or the cursor.
FailedGenerationChangesNothing ==
    [][FailingRequestStep => UNCHANGED <<layers, history, historyIndex>>]_vars

\* a neighbor request has failed for want of an image, and nothing is pending
NeighborRequestFailed ==
    /\ error = Some("Failed to generate neighbor: No seamless texture generated")
    /\ pending = <<>>
    /\ ~isGenerating

(***************************************************************************)
(* Dragging a layer                                                        *)
(***************************************************************************)
\* C5: whenever the history is non-empty and no pointer interaction is in
\* progress, the current scene is the history entry under the cursor.
IdleSceneIsHistoryEntry ==
    (Len(history) > 0 /\ interactionMode = "none") => layers = history[historyIndex + 1]

Dispatched(r) == r.kind = "asset" /\ r.stage = "collab"

AtMostOneTransient == IsNull(selection) \/ IsNull(brushMask)

(***************************************************************************)
(* Pointer interaction                                                     *)
(***************************************************************************)
\* C11: every pointer-up or pointer-leave leaves the interaction mode idle
\* whatever the mode was, and a pointer-move never changes the mode.
ModeFollowsPointer ==
    [][/\ handleMouseUp => interactionMode' = "none"
       /\ (\E q \in ScreenPts : handleMouseMove(q)) => interactionMode' = interactionMode]_vars

\* a brush stroke of a press and a move has ended: the mask holds both discs
\* and the mode is idle again
StrokeEnded ==
    /\ interactionMode = "none"
    /\ brushMask = Some({[x |-> 400, y |-> 400, size |-> EraserSize],
                         [x |-> 520, y |-> 520, size |-> EraserSize]})

\* C25 as stated: with the pointer tool active and the mode idle, a press at
\* a world point inside at least one visible object layer selects an object
\* layer and enters moving_layer, whichever layer was selected before.
PressOnObjectStartsMove ==
    [][\A q \in ScreenPts :
          (/\ activeTool = "pointer" /\ interactionMode = "none"
           /\ \E i \in 1..Len(layers) :
                 /\ layers[i].type = "object" /\ layers[i].visible
                 /\ Hit(layers[i], q.x + viewState.x, q.y + viewState.y)
           /\ \E cached \in BOOLEAN : handleMouseDown(q, cached))
          => /\ interactionMode' = "moving_layer"
             /\ \E i \in 1..Len(layers) :
                   layers[i].type = "object" /\ selectedLayerId' = Some(layers[i].id)]_vars

\* C26 as stated: whenever the interaction mode is idle no layer is in edit:
\* the editing-layer id is null and no erase buffer is held.
IdleMeansNoLayerInEdit ==
    interactionMode = "none" => (IsNull(editingLayerId) /\ ~editingCanvas)

\* the i-th pending request gets its image and its handler commits
GenerationCommits(i) ==
    \/ NavigateResolve(i)
    \/ \E ts \in Clock : AssetResolve(i, ts)
    \/ \E ts \in Clock : BaseResolve(i, ts)

\* a base layer that a base request regenerates, and so puts its own tile
\* in the place of
RegenReplaces(r, l) ==
    r.kind = "base" /\ l \notin SeqToSet(RegenLayers([r EXCEPT !.layers = <<l>>], 0))

\* C27 as stated: of two requests that were pending at the same time, the
\* commit of each keeps what the commit of the other has added: every
\* history entry stays and one is appended, and every layer added since the
\* requests were started is still in the scene, but for a base tile that
\* the committing request regenerates.
ConcurrentCommitsBothKept ==
    [][\A i \in 1..Len(pending) :
          GenerationCommits(i) =>
             /\ Len(history') = Len(history) + 1
             /\ SubSeq(history', 1, Len(history)) = history
             /\ \A k \in 1..Len(layers) :
                   (layers[k] \notin SeqToSet(BootLayers)
                    /\ ~RegenReplaces(pending[i], layers[k]))
                      => layers[k] \in SeqToSet(layers')]_vars

\* C28 as stated: when the collaborator answers every request and every
\* image load completes or fails, a started request ends: nothing stays
\* pending and isGenerating is false again.
EveryRequestSettles ==
    (isGenerating \/ Len(pending) > 0) ~> (~isGenerating /\ Len(pending) = 0)

\* C29 as stated: a newly committed object layer has a z-order strictly
\* greater than that of every layer already in the scene, so it shares its
\* z-order with no other layer.
NewObjectLayerOnTop ==
    [][(\E i \in PendingIdx, ts \in Clock : AssetResolveWithin(MaxDepth, i, ts))
       => \A k \in 1..(Len(layers') - 1) :
             layers'[k].zIndex < layers'[Len(layers')].zIndex]_vars

\* no two base layers of a scene at the same world position
OneBasePerCell(scene) ==
    \A m, n \in 1..Len(scene) :
        (m # n /\ scene[m].type = "base" /\ scene[n].type = "base")
            => ~(scene[m].x = scene[n].x /\ scene[m].y = scene[n].y)

\* C30: the current scene and every scene in history hold at most one base
\* layer per grid cell, and a navigation to a cell that already holds a
\* base layer starts no request and changes neither scene, history nor
\* cursor.
AtMostOneBasePerCell ==
    [][/\ OneBasePerCell(layers')
       /\ \A k \in 1..Len(history') : OneBasePerCell(history'[k])
       /\ \A d \in Directions :
             (/\ handleNavigate(d)
              /\ BaseExistsAt(layers, NextCell(viewState, d).gx * CANVAS_WIDTH,
                              NextCell(viewState, d).gy * CANVAS_HEIGHT))
             => UNCHANGED <<layers, history, historyIndex, pending, isGenerating>>]_vars

\* the camera went to the new tile of cell (1,0) and was then sent back to
\* cell (0,0), which held its base layer: the only commit in history is the
\* new tile's
NavigatedBackToBootTile ==
    /\ viewState = Origin
    /\ IsNull(error)
    /\ history = <<BootLayers, Append(BootLayers, SeamlessLayer([gx |-> 1, gy |-> 0]))>>
    /\ layers = history[2]
    /\ pending = <<>>
    /\ ~isGenerating

\* where a base layer was created: the cell of its id for a tile of
\* handleNavigate or of the mount effect, the snapped view of its id for a
\* tile of handleGenerateBase
CreatedAt(id) ==
    IF id.t = -1 THEN [x |-> id.a * CANVAS_WIDTH, y |-> id.b * CANVAS_HEIGHT]
    ELSE [x |-> id.a, y |-> id.b]

BasesInPlace(scene) ==
    \A i \in 1..Len(scene) :
        scene[i].type = "base" =>
            /\ scene[i].x = CreatedAt(scene[i].id).x
            /\ scene[i].y = CreatedAt(scene[i].id).y

\* C12: whatever tool is active and whatever layer was selected before,
\* pointer-down, pointer-move and pointer-up events leave every base layer
\* at the (x, y) it was created with, in the current scene and in every
\* history snapshot.
BaseLayersStayPut ==
    /\ BasesInPlace(layers)
    /\ \A k \in 1..Len(history) : BasesInPlace(history[k])

\* the object has been dragged away and committed, an eraser press has then
\* selected the base layer, and the pointer has moved with the pointer tool
\* active
BaseSelectedUnderPointerTool ==
    /\ Len(layers) = 2 /\ layers[1].type = "base"
    /\ layers[2].x # EditedScene[2].x
    /\ history[historyIndex + 1] = layers
    /\ selectedLayerId = Some(layers[1].id)
    /\ activeTool = "pointer"
    /\ mousePos # startPos

(***************************************************************************)
(* Neighbor generation                                                     *)
(***************************************************************************)
\* the state the mount effect leaves: one base layer over (0,0,1024,1024),
\* one history entry, the cursor on it
BootstrapState ==
    /\ layers = BootLayers
    /\ history = <<BootLayers>>
    /\ historyIndex = 0

\* C14: a neighbor generation to the right, asked for in the bootstrap state
\* with the view at the origin, appends on success exactly one base layer at
\* world (1024, 0) of size 1024 x 1024 after the existing layers, makes the
\* history one entry longer and leaves the cursor on the new entry.
RightNeighborAppended ==
    [][\A i \in 1..Len(pending) :
          (/\ BootstrapState
           /\ pending[i].kind = "seamless"
           /\ pending[i].view = Origin /\ pending[i].layers = BootLayers
           /\ pending[i].cell = NextCell(Origin, "right")
           /\ NavigateResolve(i))
          => /\ Len(layers') = Len(layers) + 1
             /\ SubSeq(layers', 1, Len(layers)) = layers
             /\ LET new == layers'[Len(layers')]
                IN /\ new.type = "base"
                   /\ new.x = 1024 /\ new.y = 0
                   /\ new.width = 1024 /\ new.height = 1024
             /\ Len(history') = Len(history) + 1
             /\ historyIndex' = Len(history') - 1
             /\ history'[historyIndex' + 1] = layers']_vars

\* the right-hand neighbor of the bootstrap tile has arrived
RightNeighborArrived ==
    /\ Len(layers) = 2 /\ layers[1] = BootLayers[1]
    /\ layers[2].type = "base" /\ layers[2].x = 1024 /\ layers[2].y = 0
    /\ history = <<BootLayers, layers>> /\ historyIndex = 1
    /\ viewState = [x |-> 1024, y |-> 0]
    /\ pending = <<>> /\ ~isGenerating

\* C15: a neighbor is reported present in a direction if and only if some
\* base layer lies less than 100 from the expected place on both axes; an
\* object layer never counts.  Here: the added layer is reported in the
\* direction it was placed in exactly when it is a base layer with
\* |dx| < 100 and |dy| < 100, and the bootstrap tile is reported exactly as
\* the left neighbor of the target (1024, 0).
NeighborWithinEpsilon ==
    ~IsNull(callResult) =>
        LET a == Val(callArgs)
            r == Val(callResult)
            bootCounts(d) == a.targetX = 1024 /\ a.targetY = 0 /\ d = "left"
            addedCounts(d) ==
                /\ d = a.direction
                /\ a.kind = "base"
                /\ -100 < a.dx /\ a.dx < 100
                /\ -100 < a.dy /\ a.dy < 100
        IN \A d \in Directions : r[d] <=> (bootCounts(d) \/ addedCounts(d))

\* a base tile 40 off the place right of the origin tile has been detected
\* as its right neighbor
NeighborAt40Detected ==
    /\ callArgs = Some([kind |-> "base", direction |-> "right", dx |-> 40, dy |-> 0,
                        targetX |-> 0, targetY |-> 0])
    /\ ~IsNull(callResult)
    /\ Val(callResult)["right"]

(***************************************************************************)
(* Completion of a composite                                               *)
(***************************************************************************)
\* what holds of a composite at any moment: resolve has run at most once,
\* not while an image is still loading, and it has run when every image
\* has fired its event; the promise has its value exactly when resolve has
\* run; the buffer holds exactly the layers whose image loaded
CompositeInStep ==
    LET settled == \A i \in 1..Len(compLoads) : compLoads[i] # "loading"
    IN /\ compResolved <= 1
       /\ compResolved = 1 => settled
       /\ (Len(compLoads) > 0 /\ settled) => compResolved = 1
       /\ (compResolved = 1) = ~IsNull(callResult)
       /\ {compBuffer[k] : k \in 1..Len(compBuffer)}
              = {i \in 1..Len(compLoads) : compLoads[i] = "loaded"}
       /\ Len(compBuffer) = Cardinality({i \in 1..Len(compLoads) : compLoads[i] = "loaded"})

\* the visible layers of a scene
VisibleOf(ls) == {i \in 1..Len(ls) : ls[i].visible}

\* C19: a composite (getCompositeRect, compositeLayers) resolves exactly
\* once: at once when it has no image to wait for (no visible layer, or no
\* 2d context), else not while an image of a visible layer is still loading
\* and as soon as every one of them has loaded or failed; the buffer then
\* holds exactly the layers whose image loaded, a failed load leaving out
\* that layer alone.
ResolvesOnceWhenAllSettled ==
    [][/\ CompositeInStep'
       /\ \A ls \in CompositeScenes, ctx \in BOOLEAN :
             (getCompositeRect(ls, ctx) \/ compositeLayers(ls, ctx))
                => /\ Len(compLoads') = IF ctx THEN Cardinality(VisibleOf(ls)) ELSE 0
                   /\ compResolved' = IF Len(compLoads') = 0 THEN 1 ELSE 0]_vars

\* a composite of three visible layers has resolved with one image failed
\* and the other two drawn
ResolvedWithOneFailure ==
    /\ compResolved = 1
    /\ Len(compLoads) = 3
    /\ Cardinality({i \in 1..3 : compLoads[i] = "failed"}) = 1
    /\ Len(compBuffer) = 2

(***************************************************************************)
(* Chroma key                                                              *)
(***************************************************************************)
\* C20: chromaKeyRemove with key (255, 0, 255) and threshold 100 is
\* idempotent: applied to its own result it returns that result.
ChromaKeyIdempotent ==
    (~IsNull(callResult) /\ Len(Val(callResult)) = 2)
        => Val(callResult)[2] = Val(callResult)[1]

\* the transform has run twice on a buffer of a translucent pixel within
\* the threshold of the key and an opaque pixel just outside it: the first
\* is transparent, the second untouched
KeyedTwice ==
    /\ callArgs = Some(<<[r |-> 255, g |-> 99, b |-> 255, a |-> 128],
                         [r |-> 255, g |-> 100, b |-> 255, a |-> 255]>>)
    /\ ~IsNull(callResult)
    /\ Len(Val(callResult)) = 2
    /\ Val(callResult)[2] = <<[r |-> 255, g |-> 99, b |-> 255, a |-> 0],
                              [r |-> 255, g |-> 100, b |-> 255, a |-> 255]>>

(***************************************************************************)
(* Difference extraction                                                   *)
(***************************************************************************)
\* C21: every pixel of the difference has alpha 0 when the Manhattan RGB
\* distance between the original and the generated pixel is below 35, and
\* otherwise alpha 255 and the generated pixel's RGB; the difference of two
\* identical buffers is transparent everywhere.
DifferenceKeepsChangedPixels ==
    ~IsNull(callResult) =>
        LET o == Val(callArgs).orig
            g == Val(callArgs).gen
            out == Val(callResult)
            far(i) == (IF o[i].r >= g[i].r THEN o[i].r - g[i].r ELSE g[i].r - o[i].r)
                      + (IF o[i].g >= g[i].g THEN o[i].g - g[i].g ELSE g[i].g - o[i].g)
                      + (IF o[i].b >= g[i].b THEN o[i].b - g[i].b ELSE g[i].b - o[i].b) >= 35
        IN /\ Len(out) = Len(g)
           /\ \A i \in 1..Len(out) :
                  IF far(i)
                  THEN /\ out[i].a = 255
                       /\ out[i].r = g[i].r /\ out[i].g = g[i].g /\ out[i].b = g[i].b
                  ELSE out[i].a = 0
           /\ o = g => \A i \in 1..Len(out) : out[i].a = 0

\* the difference of a two-pixel buffer with itself has been taken
IdenticalBuffersCompared ==
    /\ ~IsNull(callResult)
    /\ Len(Val(callResult)) = 2
    /\ Val(callArgs).orig = Val(callArgs).gen
    /\ Val(callArgs).gen[1].a = 255
    /\ Val(callResult)[1].a = 0 /\ Val(callResult)[2].a = 0

(***************************************************************************)
(* Tile stitcher                                                           *)
(***************************************************************************)
\* the neighbors among ds that the call was given
PresentAmong(ds) ==
    Cardinality({d \in ds : Val(callArgs).neighbors[d] \notin {Null, Some("")}})

\* C16: for each of the 16 combinations of present neighbors the input
\* canvas is square with side max(contentW, contentH), where contentW is
\* 1024 + 256 * (number present among left, right) and contentH is 1024 +
\* 256 * (number present among top, bottom); with no neighbor the side is
\* 1024 and no strip is drawn, with all four the side is 1536.
CanvasSquareOfMaxContent ==
    ~IsNull(callResult) =>
        LET layout == Val(callResult).layout
            w == 1024 + 256 * PresentAmong({"left", "right"})
            h == 1024 + 256 * PresentAmong({"top", "bottom"})
        IN /\ layout.width = layout.height
           /\ layout.width = (IF w >= h THEN w ELSE h)
           /\ layout.contentW = w /\ layout.contentH = h
           /\ Cardinality(layout.strips) = PresentAmong(Directions)
           /\ PresentAmong(Directions) = 0 => layout.width = 1024 /\ layout.strips = {}
           /\ PresentAmong(Directions) = 4 => layout.width = 1536

\* the input canvas of a call with a left and a top neighbor has been built
LeftTopCanvasBuilt ==
    /\ ~IsNull(callResult)
    /\ Val(callArgs).neighbors = [left |-> Some("strip"), right |-> Null,
                                  top |-> Some("strip"), bottom |-> Null]
    /\ Val(callResult).layout.width = 1280

\* C17 as stated: each strip drawn sits flush against its own edge of the
\* canvas: the left strip's left side at 0, the top strip's top side at 0,
\* the right strip's right side at the canvas size, the bottom strip's
\* bottom side at the canvas size.
StripsFlushWithEdges ==
    ~IsNull(callResult) =>
        LET layout == Val(callResult).layout
        IN \A st \in layout.strips :
               /\ st.side = "left" => st.x = 0
               /\ st.side = "top" => st.y = 0
               /\ st.side = "right" => st.x + st.width = layout.width
               /\ st.side = "bottom" => st.y + st.height = layout.height

\* C18: when the generator's image has side 1024, the crop is the square at
\* (targetX * s, targetY * s) of side 1024 * s with s = 1024 / canvasSize,
\* it lies inside the generator's image, and the tile cut from it measures
\* exactly 1024 x 1024.
CropInsideOutput ==
    (/\ ~IsNull(callResult)
     /\ Val(callResult).stage = "cropped"
     /\ Val(callArgs).outputSide = 1024)
    => LET r == Val(callResult)
           s == Frac(1024, r.layout.width)
           side == Frac(Val(callArgs).outputSide, 1)
       IN /\ FracEq(r.crop.x, FracTimes(r.layout.targetX, s))
          /\ FracEq(r.crop.y, FracTimes(r.layout.targetY, s))
          /\ FracEq(r.crop.width, FracTimes(1024, s))
          /\ FracEq(r.crop.height, FracTimes(1024, s))
          /\ r.crop.x.num >= 0 /\ r.crop.y.num >= 0
          /\ FracLeq(FracPlus(r.crop.x, r.crop.width), side)
          /\ FracLeq(FracPlus(r.crop.y, r.crop.height), side)
          /\ r.tile.width = 1024 /\ r.tile.height = 1024
          /\ r.tile.source = r.crop

\* C23 as stated: whatever side S the generator's image has, and whichever
\* neighbors are present, the crop is the square at (targetX * S / canvasSize,
\* targetY * S / canvasSize) of side TARGET_SIZE * S / canvasSize.
CropScaledByOutputSide ==
    (~IsNull(callResult) /\ Val(callResult).stage = "cropped")
    => LET r == Val(callResult)
           s == Frac(Val(callArgs).outputSide, r.layout.width)
       IN /\ FracEq(r.crop.x, FracTimes(r.layout.targetX, s))
          /\ FracEq(r.crop.y, FracTimes(r.layout.targetY, s))
          /\ FracEq(r.crop.width, FracTimes(TARGET_SIZE, s))
          /\ FracEq(r.crop.height, FracTimes(TARGET_SIZE, s))

\* C24 as stated: the canvas is painted by the background fill, one blit of
\* each present strip, the marker fill over the new tile's square, and then
\* a second blit of each present strip; in the finished canvas no pixel of
\* a present strip's region holds the marker or the background colour.
PaintedWithSecondBlit ==
    ~IsNull(callResult) =>
        LET r == Val(callResult)
            n == Cardinality(r.layout.strips)
            blits(from) == {[side |-> r.draws[i].color, x |-> r.draws[i].x,
                             y |-> r.draws[i].y, width |-> r.draws[i].width,
                             height |-> r.draws[i].height] : i \in from..(from + n - 1)}
        IN /\ Len(r.draws) = 2 * n + 2
           /\ r.draws[1].op = "fillRect" /\ r.draws[1].color = "#222222"
           /\ \A i \in 2..(n + 1) : r.draws[i].op = "drawImage"
           /\ blits(2) = r.layout.strips
           /\ r.draws[n + 2].op = "fillRect" /\ r.draws[n + 2].color = "#FF00FF"
           /\ \A i \in (n + 3)..(2 * n + 2) : r.draws[i].op = "drawImage"
           /\ blits(n + 3) = r.layout.strips
           /\ \A st \in r.layout.strips :
                 \A px \in {st.x, st.x + st.width - 1}, py \in {st.y, st.y + st.height - 1} :
                    ColorAt(r.draws, px, py) \notin {"#FF00FF", "#222222"}

\* a tile has been cut out of the 1024 image the generator made from a
\* canvas of side 1536
TileCutFrom1536 ==
    /\ ~IsNull(callResult)
    /\ Val(callResult).stage = "cropped"
    /\ Val(callArgs).outputSide = 1024
    /\ Val(callResult).layout.width = 1536
    /\ Val(callResult).layout.targetX = 256
    /\ Val(callResult).tile.width = 1024

(***************************************************************************)
(* Layer ids                                                               *)
(***************************************************************************)
IdsDistinct(scene) ==
    \A i, j \in 1..Len(scene) : i # j => scene[i].id # scene[j].id

\* C13 as stated: in the current scene and in every history snapshot the
\* layer ids are pairwise distinct.
LayerIdsDistinct ==
    /\ IdsDistinct(layers)
    /\ \A k \in 1..Len(history) : IdsDistinct(history[k])

(***************************************************************************)
(* Round trip                                                              *)
(***************************************************************************)
\* C3: from any history and cursor, after commit(sceneA); commit(sceneB);
\* undo(); undo(); redo() the current scene is sceneA.
RoundTripRestoresSceneA == rtStep = 5 => layers = rtSceneA

\* the script has run to its end from a history that had entries to redo
RoundTripRun ==
    /\ rtStep = 5
    /\ Len(history) = 4 /\ historyIndex = 2
    /\ history[3] = rtSceneA /\ history[4] # rtSceneA /\ history[2] # rtSceneA

(***************************************************************************)
(* Compositing order                                                       *)
(***************************************************************************)
\* C7: when getCompositeRect or compositeLayers resolves, of any two
\* overlapping layers it drew the one later in the stable ascending z-sort
\* was drawn later, so its pixels are the ones the buffer holds, whatever
\* order the images loaded in.
DrawnInZOrder ==
    compResolved > 0 =>
        \A m, n \in 1..Len(compBuffer) :
            (m < n /\ Overlap(compLayers[compBuffer[m]], compLayers[compBuffer[n]]))
                => compBuffer[m] < compBuffer[n]

(***************************************************************************)
(* Scenes are values                                                       *)
(***************************************************************************)
\* C22: no operation writes into a scene array or a layer object that already
\* exists, so a snapshot stored in history keeps its content; a history
\* entry leaves its index only in a step that commits.
SnapshotsNeverAltered ==
    [][(~IsNull(heap) /\ ~IsNull(heap')) =>
         LET h == Val(heap)
             h2 == Val(heap')
         IN /\ \A a \in 1..Len(h.arrays) : h2.arrays[a] = h.arrays[a]
            /\ \A o \in 1..Len(h.objs) : h2.objs[o] = h.objs[o]
            /\ \A k \in 1..Len(h.history) :
                  \/ /\ k <= Len(h2.history)
                     /\ h2.history[k] = h.history[k]
                     /\ HeapScene(h2, h2.history[k]) = HeapScene(h, h.history[k])
                  \/ lastOp' = "commit"]_vars

\* a mutator changed a layer that an older snapshot also holds, and the
\* older snapshot is still in history
MutatedAfterSnapshot ==
    /\ ~IsNull(heap)
    /\ lastOp = "commit"
    /\ Len(Val(heap).history) = 3
    /\ HeapScene(Val(heap), Val(heap).history[2]) = EditedScene
    /\ Len(layers) = 2
    /\ layers # EditedScene

====
